---- MODULE Spec2Model ----
(***************************************************************************)
(* A model of NistRng (the NIST SP 800-22r1a battery, python): the battery *)
(* driver of nistrng/functions.py and the fifteen test kernels of          *)
(* nistrng/sp800_22r1a.                                                    *)
(*                                                                         *)
(* Numbers.  Bit counts, block counts and table indices are integers and   *)
(* are modelled as such.  A score (a python float) is modelled as the term *)
(* that produced it: the special function applied and its exact rational   *)
(* argument, or its argument in fixed point (units of 1/10000, rounded     *)
(* down) where the argument is irrational or a sum of fractions.  Two      *)
(* scores are equal when their terms are; a score is compared with the     *)
(* significance value 0.01 through the inverse of its special function at  *)
(* 0.01 (ScoreGE).                                                         *)
(*                                                                         *)
(* Objects.  A test instance is a record of the attributes its __init__    *)
(* sets (the cache attributes included).  An _execute operator returns the *)
(* instance after the call, the caller's bit array after the call and the  *)
(* value returned or the exception raised.                                 *)
(***************************************************************************)
EXTENDS Integers, Sequences, FiniteSets, TLC

\* ------------------------------------------------------------------ bounds

\* Longest bit sequence drawn exhaustively.
MaxLen == 3

\* The largest square matrix handed to BinaryMatrix directly.
MaxRows == 4

\* _berlekamp_massey is handed every sequence of up to MaxBits bits, and the
\* sequences of two shapes up to MaxBlock bits.
MaxBits == 10

MaxBlock == 48

\* ------------------------------------------------------- python and numpy

Abs(x) == IF x < 0 THEN -x ELSE x

Min(a, b) == IF a < b THEN a ELSE b

Max(a, b) == IF a > b THEN a ELSE b

RECURSIVE Pow(_, _)
Pow(b, e) == IF e <= 0 THEN 1 ELSE b * Pow(b, e - 1)

\* floor(a / b) for b > 0 (python's // on ints; \div floors in TLA+).
FloorDiv(a, b) == a \div b

\* s[i] with python's 0-based index.
At(s, i) == s[i + 1]

\* The sequence s as an explicit tuple: a sequence written [i \in 1..n |-> e]
\* is otherwise re-evaluated at every application.
Array(s) == s \o <<>>

\* s[a:b] for 0 <= a, 0 <= b: python clips the slice to the sequence.
Slice(s, a, b) ==
  LET hi == Min(b, Len(s))
  IN  IF a >= hi THEN <<>> ELSE Array([i \in 1..(hi - a) |-> s[a + i]])

RECURSIVE SumFrom(_, _)
SumFrom(s, i) == IF i > Len(s) THEN 0 ELSE s[i] + SumFrom(s, i + 1)

\* numpy.sum
SumSeq(s) == SumFrom(Array(s), 1)

\* numpy.count_nonzero
count_nonzero(s) == Cardinality({i \in 1..Len(s) : s[i] # 0})

\* All 0/1 sequences of length lo..hi.
BitSeqs(lo, hi) == UNION {[1..n -> {0, 1}] : n \in lo..hi}

\* a / b <= c / d for a, c >= 0 and b, d > 0, by the continued fractions of
\* the two sides (no product is formed).
RECURSIVE RatLeq(_, _, _, _)
RatLeq(a, b, c, d) ==
  LET qa == a \div b
      qc == c \div d
      ra == a % b
      rc == c % d
  IN  IF qa # qc THEN qa < qc
      ELSE IF ra = 0 THEN TRUE
      ELSE IF rc = 0 THEN FALSE
      ELSE RatLeq(d, rc, b, ra)

\* <<q, r>> with a * b = q * c + r and 0 <= r < c, for a, b >= 0 and c > 0,
\* by doubling (no product larger than 3 c is formed).
RECURSIVE MulDivMod(_, _, _)
MulDivMod(a, b, c) ==
  IF a = 0 \/ b = 0 THEN <<0, 0>>
  ELSE LET h == MulDivMod(a, b \div 2, c)
           t == 2 * h[2] + (b % 2) * (a % c)
       IN  <<2 * h[1] + (b % 2) * (a \div c) + (t \div c), t % c>>

\* floor(a * b / c)
MulDiv(a, b, c) == MulDivMod(a, b, c)[1]

\* ----------------------------------------------------------------- scores

\* math.erfc(sqrt(n / d)), n >= 0, d > 0.
Erfc(n, d) == <<"erfc", n, d>>

\* scipy.special.gammaincc(a2 / 2, chi / 2), chi in units of 1/10000.
Gammaincc(a2, chi) == <<"gammaincc", a2, chi>>

\* math.e ** (-chi / 2), chi in units of 1/10000.
ExpHalf(chi) == <<"exp", chi>>

\* sqrt(n / d) itself, n >= 0, d > 0.
Root(n, d) == <<"root", n, d>>

\* A probability tabulated in units of 1/100000, rounded down.
Prob(p) == <<"p", p>>

\* The float literal 0.0.
Zero == <<"zero">>

NaN == <<"nan">>

\* The chi-square quantiles: gammaincc(a2 / 2, chi / 2) >= 0.01 iff
\* chi <= Chi2Crit[a2] (units of 1/10000, rounded down).
Chi2Crit ==
  <<66348, 92103, 113448, 132767, 150862, 168118, 184753, 200902,
    216659, 232092, 247249, 262169, 276882, 291412, 305779, 319999,
    334086, 348053, 361908, 375662, 389321, 402893, 416383, 429798,
    443141, 456416, 469629, 482782, 495878, 508921, 521913, 534857,
    547755, 560609, 573420, 586192, 598925, 611620, 624281, 636907,
    649500, 662062, 674593, 687095, 699568, 712014, 724433, 736826,
    749194, 761538>>

\* score >= self.significance_value, for the significance value 0.01 every
\* test is constructed with.  NaN compares false.
ScoreGE(score) ==
  CASE score[1] = "erfc" ->
         \* erfc(z) >= 0.01 iff z^2 <= 3.3174483...
         RatLeq(score[2], score[3], 33174483, 10000000)
    [] score[1] = "gammaincc" ->
         IF score[3] < 0 THEN FALSE                     \* nan
         ELSE IF score[2] = 0 THEN FALSE                \* a = 0: 0.0 or nan
         ELSE IF score[3] = 0 THEN TRUE                 \* 1.0
         ELSE score[3] <= Chi2Crit[score[2]]
    [] score[1] = "exp" ->
         \* e^(-chi/2) >= 0.01 iff chi <= 2 ln 100 = 9.21034...
         score[2] <= 92103
    [] score[1] = "root" ->
         \* sqrt(n/d) >= 1/100 iff n/d >= 1/10000
         RatLeq(1, 10000, score[2], score[3])
    [] score[1] = "p" -> score[2] >= 1000
    [] score[1] = "zero" -> FALSE
    [] score[1] = "nan" -> FALSE

\* 0 <= score <= 1.  NaN lies in no interval.
ScoreInUnit(score) ==
  CASE score[1] = "erfc" -> TRUE
    [] score[1] = "gammaincc" ->
         IF score[3] < 0 THEN FALSE
         ELSE IF score[2] = 0 THEN score[3] > 0
         ELSE TRUE
    [] score[1] = "exp" -> score[2] >= 0
    [] score[1] = "root" -> score[2] <= score[3]
    [] score[1] = "p" -> score[2] >= 0 /\ score[2] <= 100000
    [] score[1] = "zero" -> TRUE
    [] score[1] = "nan" -> FALSE

\* ----------------------------------------------------- Result and Test

\* nistrng.Result
Result(test_name, success, score_list) ==
  [_test_name |-> test_name, _success |-> success, _score_list |-> score_list]

\* What a call gives back: a value returned, or an exception raised.
Return(v) == [kind |-> "return", value |-> v]

Raise(e) == [kind |-> "raise", error |-> e]

\* What an _execute leaves: the instance, the caller's array, the outcome.
Exec(self, bits, out) == [self |-> self, bits |-> bits, out |-> out]

\* The tail every _execute ends with, for one score:
\*   if score >= self.significance_value: return Result(name, True, score)
\*   return Result(name, False, score)
OneScoreResult(self, score) ==
  IF ScoreGE(score)
    THEN Result(self.name, TRUE, <<score>>)
    ELSE Result(self.name, FALSE, <<score>>)

\* ---------------------------------------------------------------- Monobit

MonobitTest == [class |-> "MonobitTest", name |-> "Monobit"]

Monobit_execute(self, bits) ==
  LET ones == count_nonzero(bits)
      zeroes == Len(bits) - ones
      difference == Abs(ones - zeroes)
      score == Erfc(difference * difference, 2 * Len(bits))
  IN  Exec(self, bits, Return(OneScoreResult(self, score)))

Monobit_is_eligible(self, bits) == TRUE

\* ------------------------------------------------------------------- Runs

RunsTest == [class |-> "RunsTest", name |-> "Runs"]

\* observed_runs: 1 + the number of i with bits[i] != bits[i + 1]
ObservedRuns(bits) ==
  1 + Cardinality({i \in 1..(Len(bits) - 1) : bits[i] # bits[i + 1]})

\* With k ones in n bits, proportion = k / n and the argument of erfc is
\*   |V - 2 n p (1 - p)| / (2 sqrt(2 n) p (1 - p)),
\* whose square is (V n - 2 k (n - k))^2 n / (8 k^2 (n - k)^2).  The divisor
\* is the float 0.0 when k = 0 or k = n: python raises ZeroDivisionError.
Runs_execute(self, bits) ==
  LET n == Len(bits)
      k == count_nonzero(bits)
      observed_runs == ObservedRuns(bits)
      num == observed_runs * n - 2 * k * (n - k)
  IN  IF k * (n - k) = 0
        THEN Exec(self, bits, Raise("ZeroDivisionError"))
        ELSE Exec(self, bits, Return(OneScoreResult(self,
               Erfc(num * num * n, 8 * k * k * (n - k) * (n - k)))))

\* abs(proportion - 0.5) > 2 / sqrt(n)  iff  (2 k - n)^2 > 16 n
Runs_is_eligible(self, bits) ==
  LET n == Len(bits)
      k == count_nonzero(bits)
  IN  ~ ((2 * k - n) * (2 * k - n) > 16 * n)

\* --------------------------------------------------- Frequency Within Block

FrequencyWithinBlockTest ==
  [class |-> "FrequencyWithinBlockTest", name |-> "Frequency Within Block",
   _sequence_size_min |-> 100, _default_block_size |-> 20,
   _blocks_number_max |-> 100,
   _last_bits_size |-> -1, _block_size |-> -1, _blocks_number |-> -1]

\* A plausible slip: a block that ends with the sequence is not counted.
FrequencyWithinBlock_shape_short(self, size) ==
  LET block_size == self._default_block_size
      blocks_number == FloorDiv(size - 1, block_size)
  IN  IF blocks_number >= self._blocks_number_max
        THEN <<FloorDiv(size, self._blocks_number_max - 1),
               self._blocks_number_max - 1>>
        ELSE <<block_size, blocks_number>>

\* The shape (block_size, blocks_number) for a sequence of the given size.
FrequencyWithinBlock_shape(self, size) ==
  LET block_size == self._default_block_size
      blocks_number == FloorDiv(size, block_size)
  IN  IF blocks_number >= self._blocks_number_max
        THEN <<FloorDiv(size, self._blocks_number_max - 1),
               self._blocks_number_max - 1>>
        ELSE <<block_size, blocks_number>>

\* A plausible slip in the cache test: the shape is reloaded only when the
\* sequence is longer than the last one.
FrequencyWithinBlock_reload_longer(self, bits) ==
  self._last_bits_size = -1 \/ self._last_bits_size < Len(bits)

\* A plausible slip in the cache test: the shape is loaded once and never
\* reloaded.
FrequencyWithinBlock_reload_once(self, bits) ==
  self._last_bits_size = -1

\* if self._last_bits_size == -1 or self._last_bits_size != bits.size
FrequencyWithinBlock_reload(self, bits) ==
  self._last_bits_size = -1 \/ self._last_bits_size # Len(bits)

\* chi_square = sum 4 M (ones_i / M - 1/2)^2 = sum (2 ones_i - M)^2 / M
FrequencyWithinBlock_execute(self, bits) ==
  LET reload == FrequencyWithinBlock_reload(self, bits)
      shape == IF reload THEN FrequencyWithinBlock_shape(self, Len(bits))
               ELSE <<self._block_size, self._blocks_number>>
      block_size == shape[1]
      blocks_number == shape[2]
      after == IF reload
                 THEN [self EXCEPT !._last_bits_size = Len(bits),
                                   !._block_size = block_size,
                                   !._blocks_number = blocks_number]
                 ELSE self
      ones == Array([i \in 1..blocks_number |->
                 count_nonzero(Slice(bits, (i - 1) * block_size, i * block_size))])
      squares == [i \in 1..blocks_number |->
                    (2 * ones[i] - block_size) * (2 * ones[i] - block_size)]
      chi_square == IF blocks_number = 0 THEN 0
                    ELSE MulDiv(SumSeq(squares), 10000, block_size)
      score == Gammaincc(blocks_number, chi_square)
  IN  Exec(after, bits, Return(OneScoreResult(self, score)))

FrequencyWithinBlock_is_eligible(self, bits) ==
  ~ (Len(bits) < self._sequence_size_min)

\* -------------------------------------------------------- Cumulative Sums

CumulativeSumsTest == [class |-> "CumulativeSumsTest", name |-> "Cumulative Sums"]

\* _compute_p_value(sequence_size, max_excursion), tabulated in units of
\* 1/100000 (rounded down) for sequence_size 1..10: row n, column z.
CumulativeSums_p_values ==
  << <<63192>>,
     <<90856, 31457>>,
     <<100637, 49562, 16652>>,
     <<104591, 63057, 26721, 9100>>,
     <<99896, 73125, 35933, 14727, 5069>>,
     <<100112, 80701, 44098, 20493, 8245, 2861>>,
     <<100322, 86452, 51267, 26113, 11756, 4668, 1630>>,
     <<100527, 90856, 57549, 31456, 15419, 6778, 2665, 935>>,
     <<100019, 94257, 63057, 36474, 19116, 9100, 3926, 1532, 539>>,
     <<100021, 94174, 67892, 41158, 22768, 11555, 5371, 2282, 885, 313>> >>

CumulativeSums_compute_p_value(sequence_size, max_excursion) ==
  Prob(CumulativeSums_p_values[sequence_size][max_excursion])

\* bits with every 0 replaced by -1 (on a copy)
PlusMinus(bits) ==
  Array([i \in 1..Len(bits) |-> IF bits[i] = 0 THEN -1 ELSE bits[i]])

\* The largest |partial sum| of x[1..i], i = 1..Len(x).
RECURSIVE MaxExcursion(_, _, _, _)
MaxExcursion(x, i, sum, best) ==
  IF i > Len(x) THEN best
  ELSE MaxExcursion(x, i + 1, sum + x[i], Max(Abs(sum + x[i]), best))

Reverse(s) == Array([i \in 1..Len(s) |-> s[Len(s) + 1 - i]])

\* A plausible slip in the final test: 'or' for 'and'.
CumulativeSums_execute_or(self, bits) ==
  LET bits_copy == PlusMinus(bits)
      forward_max == MaxExcursion(bits_copy, 1, 0, 0)
      backward_max == MaxExcursion(Reverse(bits_copy), 1, 0, 0)
      score_1 == CumulativeSums_compute_p_value(Len(bits), forward_max)
      score_2 == CumulativeSums_compute_p_value(Len(bits), backward_max)
  IN  IF ScoreGE(score_1) \/ ScoreGE(score_2)
        THEN Exec(self, bits, Return(Result(self.name, TRUE, <<score_1, score_2>>)))
        ELSE Exec(self, bits, Return(Result(self.name, FALSE, <<score_1, score_2>>)))

CumulativeSums_execute(self, bits) ==
  LET bits_copy == PlusMinus(bits)
      forward_max == MaxExcursion(bits_copy, 1, 0, 0)
      backward_max == MaxExcursion(Reverse(bits_copy), 1, 0, 0)
      score_1 == CumulativeSums_compute_p_value(Len(bits), forward_max)
      score_2 == CumulativeSums_compute_p_value(Len(bits), backward_max)
  IN  IF ScoreGE(score_1) /\ ScoreGE(score_2)
        THEN Exec(self, bits, Return(Result(self.name, TRUE, <<score_1, score_2>>)))
        ELSE Exec(self, bits, Return(Result(self.name, FALSE, <<score_1, score_2>>)))

CumulativeSums_is_eligible(self, bits) == TRUE

\* --------------------------------------------- Discrete Fourier Transform

DiscreteFourierTransformTest ==
  [class |-> "DiscreteFourierTransformTest", name |-> "Discrete Fourier Transform"]

\* cos(2 pi t / n) in units of 1/10000, for n = 2, 4, 6, 8, 10: row n / 2,
\* column t + 1.
Cosines ==
  << <<10000, -10000>>,
     <<10000, 0, -10000, 0>>,
     <<10000, 5000, -5000, -10000, -5000, 5000>>,
     <<10000, 7071, 0, -7071, -10000, -7071, 0, 7071>>,
     <<10000, 8090, 3090, -3090, -8090, -10000, -8090, -3090, 3090, 8090>> >>

\* |numpy.fft.fft(x)[k]|^2 = sum over j, l of x[j] x[l] cos(2 pi k (j - l) / n),
\* in units of 1/10000.
SquaredMagnitude(x, k) ==
  LET n == Len(x)
      term(j, l) == x[j] * x[l] * Cosines[n \div 2][((k * (j - l)) % n) + 1]
      row(j) == SumSeq([l \in 1..n |-> term(j, l)])
  IN  SumSeq([j \in 1..n |-> row(j)])

\* threshold^2 = ln(1 / 0.05) n = 2.9957... n.  With N1 peaks under the
\* threshold, normalized_difference = (N1 - 0.475 n) / sqrt(0.011875 n) and
\* the argument of erfc squared is (40 N1 - 19 n)^2 / (38 n).
\* numpy.fft.fft raises ValueError on an empty array.
DiscreteFourierTransform_execute(self, bits) ==
  LET even == IF Len(bits) % 2 = 1 THEN Slice(bits, 0, Len(bits) - 1) ELSE bits
      bits_copy == PlusMinus(even)
      n == Len(bits_copy)
      counted_peaks ==
        Cardinality({k \in 0..((n \div 2) - 1) :
                       SquaredMagnitude(bits_copy, k) < 29957 * n})
      num == 40 * counted_peaks - 19 * n
  IN  IF n = 0
        THEN Exec(self, bits, Raise("ValueError"))
        ELSE Exec(self, bits,
                  Return(OneScoreResult(self, Erfc(num * num, 38 * n))))

DiscreteFourierTransform_is_eligible(self, bits) == TRUE

\* ------------------------------------ Random Excursion (and its variant)

\* S': 0, the partial sums of the -1/+1 sequence, 0.
RECURSIVE CumSum(_, _, _)
CumSum(x, i, sum) ==
  IF i > Len(x) THEN <<>> ELSE <<sum + x[i]>> \o CumSum(x, i + 1, sum + x[i])

SumPrime(bits) == <<0>> \o CumSum(PlusMinus(bits), 1, 0) \o <<0>>

RandomExcursionVariantTest ==
  [class |-> "RandomExcursionVariantTest", name |-> "Random Excursion Variant"]

\* The score of state key is |count - J| / sqrt(2 J (4 |key| - 2)); the
\* states are those visited with |key| < 10, in ascending order
\* (numpy.unique), 0 left out.
RandomExcursionVariant_execute(self, bits) ==
  LET sum_prime == SumPrime(bits)
      cycles_size == Cardinality({i \in 2..Len(sum_prime) : sum_prime[i] = 0})
      counts(key) == Cardinality({i \in 1..Len(sum_prime) : sum_prime[i] = key})
      keys == Array([i \in 1..19 |-> i - 10])
      visited == SelectSeq(keys, LAMBDA key : counts(key) > 0 /\ key # 0)
      scores == Array([i \in 1..Len(visited) |->
                   Root((counts(visited[i]) - cycles_size)
                          * (counts(visited[i]) - cycles_size),
                        2 * cycles_size * (4 * Abs(visited[i]) - 2))])
  IN  IF \A i \in 1..Len(scores) : ScoreGE(scores[i])
        THEN Exec(self, bits, Return(Result(self.name, TRUE, scores)))
        ELSE Exec(self, bits, Return(Result(self.name, FALSE, scores)))

RandomExcursionVariant_is_eligible(self, bits) == TRUE

\* _probabilities_xk in units of 1/10000: row |x|, column k + 1.
RandomExcursionTest ==
  [class |-> "RandomExcursionTest", name |-> "Random Excursion",
   _probabilities_xk |->
     << <<5000, 2500, 1250, 625, 312, 312>>,
        <<7500, 625, 469, 352, 264, 791>>,
        <<8333, 278, 231, 193, 161, 804>>,
        <<8750, 156, 137, 120, 105, 733>>,
        <<9000, 100, 90, 81, 73, 656>>,
        <<9167, 69, 64, 58, 53, 588>>,
        <<9286, 51, 47, 44, 41, 531>> >>]

\* The cycles of S' as the loop builds them: it reads sum_prime[index] for
\* index = 0 .. len - 2, closes the open cycle at every 0 it reads (the
\* leading 0 included) and appends the cycle left open at the end.
RECURSIVE Cycles(_, _, _)
Cycles(sum_prime, index, cycle) ==
  IF index > Len(sum_prime) - 2 THEN <<cycle>>
  ELSE IF At(sum_prime, index) # 0
         THEN Cycles(sum_prime, index + 1, cycle \o <<At(sum_prime, index)>>)
         ELSE <<cycle \o <<0>> >> \o Cycles(sum_prime, index + 1, <<0>>)

\* frequencies_table[value][k]: the cycles in which value occurs k times
\* (k < 5), and in every column the cycles in which it occurs 5 times or more.
RandomExcursion_frequency(cycles, value, k) ==
  LET occurrences(c) ==
        Cardinality({i \in 1..Len(cycles[c]) : cycles[c][i] = value})
  IN  Cardinality({c \in 1..Len(cycles) :
                     (5 > k /\ k = occurrences(c)) \/ occurrences(c) >= 5})

\* sum over k of (v_k - J p_k)^2 / (J p_k), in units of 1/10000.
RandomExcursion_chi_square(self, cycles, value) ==
  LET cycles_size == Len(cycles)
      p(k) == self._probabilities_xk[Abs(value)][k + 1]
      diff(k) == Abs(10000 * RandomExcursion_frequency(cycles, value, k)
                     - cycles_size * p(k))
  IN  SumSeq([i \in 1..6 |-> MulDiv(diff(i - 1), diff(i - 1), cycles_size * p(i - 1))])

RandomExcursion_execute(self, bits) ==
  LET cycles == Cycles(SumPrime(bits), 0, <<0>>)
      values == <<-4, -3, -2, -1, 1, 2, 3, 4>>
      scores == Array([i \in 1..8 |->
                   Gammaincc(5, RandomExcursion_chi_square(self, cycles, values[i]))])
  IN  IF \A i \in 1..8 : ScoreGE(scores[i])
        THEN Exec(self, bits, Return(Result(self.name, TRUE, scores)))
        ELSE Exec(self, bits, Return(Result(self.name, FALSE, scores)))

RandomExcursion_is_eligible(self, bits) == TRUE

\* ------------------------------------------------------ Approximate Entropy

ApproximateEntropyTest ==
  [class |-> "ApproximateEntropyTest", name |-> "Approximate Entropy",
   _pattern_length |-> 4, _last_bits_size |-> -1, _blocks_length |-> -1]

\* _pattern_to_int: the bits read as a binary number, first bit highest.
RECURSIVE pattern_to_int(_)
pattern_to_int(bit_pattern) ==
  IF bit_pattern = <<>> THEN 0
  ELSE 2 * pattern_to_int(SubSeq(bit_pattern, 1, Len(bit_pattern) - 1))
         + bit_pattern[Len(bit_pattern)]

\* floor(log2(n)), n >= 1
RECURSIVE FloorLog2(_)
FloorLog2(n) == IF n < 2 THEN 0 ELSE 1 + FloorLog2(n \div 2)

\* ln(k) in units of 1/1000000, k = 1..16.
Ln ==
  <<0, 693147, 1098612, 1386294, 1609438, 1791759, 1945910, 2079442,
    2197225, 2302585, 2397895, 2484907, 2564949, 2639057, 2708050, 2772589>>

\* counts[i] for the patterns of the given length, i = 0 .. 2^length - 1
ApproximateEntropy_counts(bits, length) ==
  LET padded_bits == bits \o Slice(bits, 0, length - 1)
  IN  Array([i \in 1..Pow(2, length) |->
         Cardinality({j \in 0..(Len(bits) - 1) :
            pattern_to_int(Slice(padded_bits, j, j + length)) = i - 1})])

\* sum of c ln(c) over the counts c > 0, in units of 1/1000000
SumCLnC(counts) ==
  SumSeq([i \in 1..Len(counts) |->
            IF counts[i] > 0 THEN counts[i] * Ln[counts[i]] ELSE 0])

\* A plausible intent, "a range bounded by 2 and 3": the clamp into 2..3.
ApproximateEntropy_blocks_length_clamp(size) ==
  Max(2, Min(3, FloorLog2(size) - 6))

\* The block length a reload computes from bits.size (size >= 1):
\*   min(2, max(3, int(math.floor(math.log(bits.size, 2))) - 6))
ApproximateEntropy_blocks_length(size) ==
  Min(2, Max(3, FloorLog2(size) - 6))

\* With C_i = c_i / n, Phi_m = sum C_i ln(C_i / 10) = (sum c_i ln c_i) / n
\* - ln(n) - ln(10), so that
\*   chi_square = 2 n (ln 2 - (Phi_m - Phi_m+1))
\*              = 2 (n ln 2 - sum c_i ln c_i [m] + sum c_i ln c_i [m + 1]).
ApproximateEntropy_execute(self, bits) ==
  LET reload == self._last_bits_size = -1 \/ self._last_bits_size # Len(bits)
      blocks_length == IF reload
                         THEN ApproximateEntropy_blocks_length(Len(bits))
                         ELSE self._blocks_length
      after == IF reload
                 THEN [self EXCEPT !._last_bits_size = Len(bits),
                                   !._blocks_length = blocks_length]
                 ELSE self
      phi_0 == SumCLnC(ApproximateEntropy_counts(bits, blocks_length))
      phi_1 == SumCLnC(ApproximateEntropy_counts(bits, blocks_length + 1))
      chi_square == (2 * (Len(bits) * Ln[2] - phi_0 + phi_1)) \div 100
      score == Gammaincc(2 * Pow(2, blocks_length - 1), chi_square)
  IN  Exec(after, bits, Return(OneScoreResult(self, score)))

ApproximateEntropy_is_eligible(self, bits) == TRUE

\* ------------------------------------------------------------------ Serial

SerialTest ==
  [class |-> "SerialTest", name |-> "Serial",
   _blocks_length_min |-> 4, _pattern_length |-> 4]

\* pattern = (i >> arange(block_size)) & 1: the bits of i, lowest first
Serial_pattern(i, block_size) ==
  Array([j \in 1..block_size |-> (i \div Pow(2, j - 1)) % 2])

Serial_count_pattern(pattern, padded_sequence, sequence_size) ==
  Cardinality({i \in 0..(sequence_size - 1) :
     \A j \in 0..(Len(pattern) - 1) : At(pattern, j) = At(padded_sequence, i + j)})

\* sum of counts^2 over the 2^block_size patterns: psi_sq_m is this sum
\* times 2^block_size / sequence_size, minus sequence_size.
Serial_sum_squares(block_size, sequence_size, padded_sequence) ==
  SumSeq([i \in 1..Pow(2, block_size) |->
     LET c == Serial_count_pattern(Serial_pattern(i - 1, block_size),
                                   padded_sequence, sequence_size)
     IN  c * c])

\* chi / 2 is the second argument of gammaincc, chi given as num / den;
\* a negative argument gives nan (an argument of -1 stands for it).
Serial_score(a2, num, den) ==
  IF num < 0 THEN Gammaincc(a2, -1) ELSE Gammaincc(a2, MulDiv(num, 10000, den))

\* _count_pattern indexes padded_sequence[i + j] for every i < size and
\* j < block_size: IndexError when the padding is shorter than
\* _pattern_length - 1.
Serial_execute(self, bits) ==
  LET m == self._pattern_length
      n == Len(bits)
      padded_bits == bits \o Slice(bits, 0, m - 1)
      s0 == Serial_sum_squares(m, n, padded_bits)
      s1 == Serial_sum_squares(m - 1, n, padded_bits)
      s2 == Serial_sum_squares(m - 2, n, padded_bits)
      \* psi_m = 2^m s / n - n
      delta_1 == Pow(2, m) * s0 - Pow(2, m - 1) * s1
      delta_2 == Pow(2, m) * s0 - 2 * Pow(2, m - 1) * s1 + Pow(2, m - 2) * s2
      score_1 == Serial_score(2 * Pow(2, m - 2), delta_1, n)
      score_2 == Serial_score(2 * Pow(2, m - 3), delta_2, n)
  IN  IF Len(padded_bits) < n + m - 1
        THEN Exec(self, bits, Raise("IndexError"))
        ELSE IF ScoreGE(score_1) /\ ScoreGE(score_2)
          THEN Exec(self, bits, Return(Result(self.name, TRUE, <<score_1, score_2>>)))
          ELSE Exec(self, bits, Return(Result(self.name, FALSE, <<score_1, score_2>>)))

\* int(floor(log2(size))) - 2 < _blocks_length_min
\* A plausible slip in the comparison: <= for <.
Serial_is_eligible_le(self, bits) ==
  ~ (FloorLog2(Len(bits)) - 2 <= self._blocks_length_min)

Serial_is_eligible(self, bits) ==
  ~ (FloorLog2(Len(bits)) - 2 < self._blocks_length_min)

\* --------------------------------------------- Longest Run Ones In A Block

LongestRunOnesInABlockTest ==
  [class |-> "LongestRunOnesInABlockTest", name |-> "Longest Run Ones In A Block",
   _sequence_size_min |-> 128,
   _last_bits_size |-> -1, _block_size |-> -1, _blocks_number |-> -1, _k |-> -1]

\* <<block_size, blocks_number, k>> for a sequence of the given size
LongestRunOnesInABlock_shape(size) ==
  LET block_size == IF size < 6272 THEN 8
                    ELSE IF size < 750000 THEN 128 ELSE 10000
  IN  IF block_size = 8 THEN <<8, 16, 3>>
      ELSE IF block_size = 128 THEN <<128, 49, 5>>
      ELSE <<block_size, 75, 6>>

\* The list _probabilities indexes for a block size, in units of 1/10000
LongestRunOnesInABlock_probabilities_row(size_of_block) ==
  IF size_of_block = 8 THEN <<1174, 2430, 2493, 1752, 1027, 1124>>
  ELSE IF size_of_block = 128 THEN <<1174, 2430, 2493, 1752, 1027, 1124>>
  ELSE IF size_of_block = 512 THEN <<1170, 2460, 2523, 1755, 1027, 1124>>
  ELSE IF size_of_block = 1000 THEN <<1307, 2437, 2452, 1714, 1002, 1088>>
  ELSE <<882, 2092, 2483, 1933, 1208, 675, 727>>

\* _probabilities(size_of_block, index)
LongestRunOnesInABlock_probabilities(size_of_block, index) ==
  At(LongestRunOnesInABlock_probabilities_row(size_of_block), index)

\* The longest run of ones in block, scanning from position j.
RECURSIVE LongestRun(_, _, _, _)
LongestRun(block, j, run_length, longest_run_length) ==
  IF j > Len(block) THEN longest_run_length
  ELSE IF block[j] = 1
    THEN LongestRun(block, j + 1, run_length + 1,
                    Max(run_length + 1, longest_run_length))
    ELSE LongestRun(block, j + 1, 0, longest_run_length)

\* The bin of a block's longest run
LongestRunOnesInABlock_bin(block_size, longest_run_length) ==
  IF block_size = 8 THEN Min(3, Max(0, longest_run_length - 1))
  ELSE IF block_size = 128 THEN Min(5, Max(0, longest_run_length - 4))
  ELSE Min(6, Max(0, longest_run_length - 10))

\* block[j] is read for every j < block_size: IndexError when the sequence
\* does not fill blocks_number blocks.
LongestRunOnesInABlock_execute(self, bits) ==
  LET reload == self._last_bits_size = -1 \/ self._last_bits_size # Len(bits)
      shape == IF reload THEN LongestRunOnesInABlock_shape(Len(bits))
               ELSE <<self._block_size, self._blocks_number, self._k>>
      block_size == shape[1]
      blocks_number == shape[2]
      k == shape[3]
      after == IF reload
                 THEN [self EXCEPT !._last_bits_size = Len(bits),
                                   !._block_size = block_size,
                                   !._blocks_number = blocks_number,
                                   !._k = k]
                 ELSE self
      bin(i) == LongestRunOnesInABlock_bin(block_size,
                  LongestRun(Slice(bits, i * block_size, (i + 1) * block_size), 1, 0, 0))
      bins == Array([i \in 1..blocks_number |-> bin(i - 1)])
      frequencies == Array([f \in 1..7 |->
                        Cardinality({i \in 1..blocks_number : bins[i] = f - 1})])
      expected(i) == blocks_number * LongestRunOnesInABlock_probabilities(block_size, i)
      diff(i) == Abs(10000 * frequencies[i + 1] - expected(i))
      chi_square == SumSeq([i \in 1..(k + 1) |->
                              MulDiv(diff(i - 1), diff(i - 1), expected(i - 1))])
  IN  IF Len(bits) < blocks_number * block_size
        THEN Exec(after, bits, Raise("IndexError"))
        ELSE Exec(after, bits,
                  Return(OneScoreResult(self, Gammaincc(k, chi_square))))

LongestRunOnesInABlock_is_eligible(self, bits) ==
  ~ (Len(bits) < self._sequence_size_min)

\* ------------------------------------------------------ Binary Matrix Rank

\* BinaryMatrix(block, rows_number, columns_number): _matrix is the
\* sequence of the rows of block.  The class works in place on the block it
\* was given: every method returns the object it leaves.
BinaryMatrix(block, rows_number, columns_number) ==
  [_rows |-> rows_number, _columns |-> columns_number, _matrix |-> block,
   _base_rank |-> Min(rows_number, columns_number)]

\* Row i is added (mod 2) to every row j below it (forward elimination) or
\* above it (backward) that has a 1 in column i:
\*   self._matrix[j, :] = (self._matrix[j, :] + self._matrix[i, :]) % 2
\* Row i itself is not written, so the rows can be taken in any order.
BinaryMatrix_perform_row_operations(self, i, forward_elimination) ==
  LET matrix == self._matrix
  IN  [self EXCEPT !._matrix = Array([j \in 1..self._rows |->
        IF ((forward_elimination /\ j - 1 > i) \/ (~forward_elimination /\ j - 1 < i))
           /\ At(matrix[j], i) = 1
          THEN Array([c \in 1..Len(matrix[j]) |->
                        (matrix[j][c] + At(matrix, i)[c]) % 2])
          ELSE matrix[j]])]

BinaryMatrix_swap_rows(self, source_row_index, target_row_index) ==
  [self EXCEPT !._matrix =
     [self._matrix EXCEPT ![source_row_index + 1] = self._matrix[target_row_index + 1],
                          ![target_row_index + 1] = self._matrix[source_row_index + 1]]]

\* A plausible slip: the search for a row to swap with finds none.
BinaryMatrix_find_unit_element_swap_none(self, i, forward_elimination) ==
  <<self, 0>>

\* <<self, row_swap_operation>>: row i is swapped with the nearest row
\* below (above) it that has a 1 in column i, if there is one.
BinaryMatrix_find_unit_element_swap(self, i, forward_elimination) ==
  LET found == {index \in 0..(self._rows - 1) :
                  /\ IF forward_elimination THEN index > i ELSE index < i
                  /\ At(At(self._matrix, index), i) # 0}
      nearest == CHOOSE index \in found :
                   \A other \in found :
                      IF forward_elimination THEN index <= other ELSE index >= other
  IN  IF found # {}
        THEN <<BinaryMatrix_swap_rows(self, i, nearest), 1>>
        ELSE <<self, 0>>

\* The body of either loop of compute_rank at pivot i.
BinaryMatrix_step(self, i, forward_elimination) ==
  IF At(At(self._matrix, i), i) = 1
    THEN BinaryMatrix_perform_row_operations(self, i, forward_elimination)
    ELSE LET found == BinaryMatrix_find_unit_element_swap(self, i, forward_elimination)
         IN  IF found[2] = 1
               THEN BinaryMatrix_perform_row_operations(found[1], i, forward_elimination)
               ELSE found[1]

\* while i < self._base_rank - 1: ...; i += 1
RECURSIVE BinaryMatrix_forward(_, _)
BinaryMatrix_forward(self, i) ==
  IF i < self._base_rank - 1
    THEN BinaryMatrix_forward(BinaryMatrix_step(self, i, TRUE), i + 1)
    ELSE self

\* A plausible slip: the backward elimination is left out.
BinaryMatrix_backward_skipped(self, i) == self

\* i = self._base_rank - 1; while i > 0: ...; i -= 1
RECURSIVE BinaryMatrix_backward(_, _)
BinaryMatrix_backward(self, i) ==
  IF i > 0 /\ i < self._base_rank
    THEN BinaryMatrix_backward(BinaryMatrix_step(self, i, FALSE), i - 1)
    ELSE self

\* _compute_rank: base_rank minus the number of rows without a 1
BinaryMatrix_count_rank(self) ==
  self._base_rank
  - Cardinality({i \in 1..self._rows :
                   \A j \in 1..self._columns : self._matrix[i][j] # 1})

\* compute_rank: <<the object it leaves, the rank>>
BinaryMatrix_compute_rank(self) ==
  LET eliminated == BinaryMatrix_backward(BinaryMatrix_forward(self, 0),
                                          self._base_rank - 1)
  IN  <<eliminated, BinaryMatrix_count_rank(eliminated)>>

\* _product(number_of_rows, number_of_cols) in units of 1/100000: the
\* product over i < number_of_rows of 1 - 2^(i - number_of_cols) (the factor
\* 1 - 2^(i - number_of_rows) cancels), rounded down at every factor:
\* floor(p (2^e - 1) / 2^e) = p - ceil(p / 2^e).  A factor closer to 1 than
\* 2^-29 is taken as 1.
RECURSIVE BinaryMatrixRank_product_from(_, _, _, _)
BinaryMatrixRank_product_from(product, i, number_of_rows, number_of_cols) ==
  IF i >= number_of_rows THEN product
  ELSE BinaryMatrixRank_product_from(
         IF number_of_cols - i > 29 THEN product
         ELSE product - ((product + Pow(2, number_of_cols - i) - 1)
                           \div Pow(2, number_of_cols - i)),
         i + 1, number_of_rows, number_of_cols)

BinaryMatrixRank_product(number_of_rows, number_of_cols) ==
  BinaryMatrixRank_product_from(100000, 0, number_of_rows, number_of_cols)

\* __init__ for the given matrix shape; the factor 2.0 ** (...) of the two
\* probabilities is 2.0 ** 0.
BinaryMatrixRank_init(rows_number, cols_number, block_size_min) ==
  LET full == BinaryMatrixRank_product(rows_number, cols_number)
      minus == BinaryMatrixRank_product(rows_number - 1, cols_number)
  IN  [class |-> "BinaryMatrixRankTest", name |-> "Binary Matrix Rank",
       _rows_number |-> rows_number, _cols_number |-> cols_number,
       _block_size_min |-> block_size_min,
       _full_rank_probability |-> full,
       _minus_rank_probability |-> minus,
       _remained_rank_probability |-> 100000 - (full + minus),
       _last_bits_size |-> -1, _blocks_number |-> -1]

BinaryMatrixRankTest == BinaryMatrixRank_init(32, 32, 38)

\* bits[offset : offset + rows * cols].reshape((rows, cols))
Reshape(bits, offset, rows, cols) ==
  Array([r \in 1..rows |->
           Array([c \in 1..cols |-> bits[offset + (r - 1) * cols + c]])])

\* The reshaped block is a view of bits: what compute_rank leaves in the
\* matrix it leaves in bits.
WriteBack(bits, offset, matrix, rows, cols) ==
  Array([p \in 1..Len(bits) |->
     IF p > offset /\ p <= offset + rows * cols
       THEN matrix[((p - offset - 1) \div cols) + 1][((p - offset - 1) % cols) + 1]
       ELSE bits[p]])

\* The blocks i, i + 1, ...: <<bits left, the ranks found>>
RECURSIVE BinaryMatrixRank_blocks(_, _, _, _)
BinaryMatrixRank_blocks(self, bits, i, blocks_number) ==
  IF i >= blocks_number THEN <<bits, <<>> >>
  ELSE LET rows == self._rows_number
           cols == self._cols_number
           done == BinaryMatrix_compute_rank(
                     BinaryMatrix(Reshape(bits, i * rows * cols, rows, cols),
                                  rows, cols))
           rest == BinaryMatrixRank_blocks(self,
                     WriteBack(bits, i * rows * cols, done[1]._matrix, rows, cols),
                     i + 1, blocks_number)
       IN  <<rest[1], <<done[2]>> \o rest[2]>>

\* One term of chi_square, (observed - p n)^2 / (p n), in units of 1/10000
\* (p in units of 1/100000).
BinaryMatrixRank_term(observed, probability, blocks_number) ==
  LET diff == Abs(100000 * observed - probability * blocks_number)
  IN  MulDiv(diff, diff, 10 * probability * blocks_number)

\* The three quotients are python floats: with no whole block the divisors
\* are 0.0 and python raises ZeroDivisionError.
BinaryMatrixRank_execute(self, bits) ==
  LET reload == self._last_bits_size = -1 \/ self._last_bits_size # Len(bits)
      blocks_number == IF reload
                         THEN FloorDiv(Len(bits), self._rows_number * self._cols_number)
                         ELSE self._blocks_number
      after == IF reload
                 THEN [self EXCEPT !._last_bits_size = Len(bits),
                                   !._blocks_number = blocks_number]
                 ELSE self
      done == BinaryMatrixRank_blocks(self, bits, 0, blocks_number)
      ranks == done[2]
      full_rank_matrices ==
        Cardinality({i \in 1..Len(ranks) : ranks[i] = self._rows_number})
      minus_rank_matrices ==
        Cardinality({i \in 1..Len(ranks) : ranks[i] = self._rows_number - 1})
      remainder == Len(ranks) - full_rank_matrices - minus_rank_matrices
      chi_square ==
        BinaryMatrixRank_term(full_rank_matrices, self._full_rank_probability,
                              blocks_number)
        + BinaryMatrixRank_term(minus_rank_matrices, self._minus_rank_probability,
                                blocks_number)
        + BinaryMatrixRank_term(remainder, self._remained_rank_probability,
                                blocks_number)
  IN  IF blocks_number = 0
        THEN Exec(after, done[1], Raise("ZeroDivisionError"))
        ELSE Exec(after, done[1], Return(OneScoreResult(self, ExpHalf(chi_square))))

BinaryMatrixRank_is_eligible(self, bits) ==
  ~ (FloorDiv(Len(bits), self._rows_number * self._cols_number)
       < self._block_size_min)

\* --------------------------------------- Non Overlapping Template Matching

\* self._templates: the templates of length 2, 3, ..., 8.  (The list is
\* never assigned after __init__; it is kept out of the instance record.)
NonOverlappingTemplateMatching_templates ==
  <<
     <<<<0, 1>>, <<1, 0>>>>,
     <<<<0, 0, 1>>, <<0, 1, 1>>, <<1, 0, 0>>, <<1, 1, 0>>>>,
     <<<<0, 0, 0, 1>>, <<0, 0, 1, 1>>, <<0, 1, 1, 1>>, <<1, 0, 0, 0>>,
       <<1, 1, 0, 0>>, <<1, 1, 1, 0>>>>,
     <<<<0, 0, 0, 0, 1>>, <<0, 0, 0, 1, 1>>, <<0, 0, 1, 0, 1>>,
       <<0, 1, 0, 1, 1>>, <<0, 0, 1, 1, 1>>, <<0, 1, 1, 1, 1>>,
       <<1, 1, 1, 0, 0>>, <<1, 1, 0, 1, 0>>, <<1, 0, 1, 0, 0>>,
       <<1, 1, 0, 0, 0>>, <<1, 0, 0, 0, 0>>, <<1, 1, 1, 1, 0>>>>,
     <<<<0, 0, 0, 0, 0, 1>>, <<0, 0, 0, 0, 1, 1>>, <<0, 0, 0, 1, 0, 1>>,
       <<0, 0, 0, 1, 1, 1>>, <<0, 0, 1, 0, 1, 1>>, <<0, 0, 1, 1, 0, 1>>,
       <<0, 0, 1, 1, 1, 1>>, <<0, 1, 0, 0, 1, 1>>, <<0, 1, 0, 1, 1, 1>>,
       <<0, 1, 1, 1, 1, 1>>, <<1, 0, 0, 0, 0, 0>>, <<1, 0, 1, 0, 0, 0>>,
       <<1, 0, 1, 1, 0, 0>>, <<1, 1, 0, 0, 0, 0>>, <<1, 1, 0, 0, 1, 0>>,
       <<1, 1, 0, 1, 0, 0>>, <<1, 1, 1, 0, 0, 0>>, <<1, 1, 1, 0, 1, 0>>,
       <<1, 1, 1, 1, 0, 0>>, <<1, 1, 1, 1, 1, 0>>>>,
     <<<<0, 0, 0, 0, 0, 0, 1>>, <<0, 0, 0, 0, 0, 1, 1>>,
       <<0, 0, 0, 0, 1, 0, 1>>, <<0, 0, 0, 0, 1, 1, 1>>,
       <<0, 0, 0, 1, 0, 0, 1>>, <<0, 0, 0, 1, 0, 1, 1>>,
       <<0, 0, 0, 1, 1, 0, 1>>, <<0, 0, 0, 1, 1, 1, 1>>,
       <<0, 0, 1, 0, 0, 1, 1>>, <<0, 0, 1, 0, 1, 0, 1>>,
       <<0, 0, 1, 0, 1, 1, 1>>, <<0, 0, 1, 1, 0, 1, 1>>,
       <<0, 0, 1, 1, 1, 0, 1>>, <<0, 0, 1, 1, 1, 1, 1>>,
       <<0, 1, 0, 0, 0, 1, 1>>, <<0, 1, 0, 0, 1, 1, 1>>,
       <<0, 1, 0, 1, 0, 1, 1>>, <<0, 1, 0, 1, 1, 1, 1>>,
       <<0, 1, 1, 0, 1, 1, 1>>, <<0, 1, 1, 1, 1, 1, 1>>,
       <<1, 0, 0, 0, 0, 0, 0>>, <<1, 0, 0, 1, 0, 0, 0>>,
       <<1, 0, 1, 0, 0, 0, 0>>, <<1, 0, 1, 0, 1, 0, 0>>,
       <<1, 0, 1, 1, 0, 0, 0>>, <<1, 0, 1, 1, 1, 0, 0>>,
       <<1, 1, 0, 0, 0, 0, 0>>, <<1, 1, 0, 0, 0, 1, 0>>,
       <<1, 1, 0, 0, 1, 0, 0>>, <<1, 1, 0, 1, 0, 0, 0>>,
       <<1, 1, 0, 1, 0, 1, 0>>, <<1, 1, 0, 1, 1, 0, 0>>,
       <<1, 1, 1, 0, 0, 0, 0>>, <<1, 1, 1, 0, 0, 1, 0>>,
       <<1, 1, 1, 0, 1, 0, 0>>, <<1, 1, 1, 0, 1, 1, 0>>,
       <<1, 1, 1, 1, 0, 0, 0>>, <<1, 1, 1, 1, 0, 1, 0>>,
       <<1, 1, 1, 1, 1, 0, 0>>, <<1, 1, 1, 1, 1, 1, 0>>>>,
     <<<<0, 0, 0, 0, 0, 0, 0, 1>>, <<0, 0, 0, 0, 0, 0, 1, 1>>,
       <<0, 0, 0, 0, 0, 1, 0, 1>>, <<0, 0, 0, 0, 0, 1, 1, 1>>,
       <<0, 0, 0, 0, 1, 0, 0, 1>>, <<0, 0, 0, 0, 1, 0, 1, 1>>,
       <<0, 0, 0, 0, 1, 1, 0, 1>>, <<0, 0, 0, 0, 1, 1, 1, 1>>,
       <<0, 0, 0, 1, 0, 0, 1, 1>>, <<0, 0, 0, 1, 0, 1, 0, 1>>,
       <<0, 0, 0, 1, 0, 1, 1, 1>>, <<0, 0, 0, 1, 1, 0, 0, 1>>,
       <<0, 0, 0, 1, 1, 0, 1, 1>>, <<0, 0, 0, 1, 1, 1, 0, 1>>,
       <<0, 0, 0, 1, 1, 1, 1, 1>>, <<0, 0, 1, 0, 0, 0, 1, 1>>,
       <<0, 0, 1, 0, 0, 1, 0, 1>>, <<0, 0, 1, 0, 0, 1, 1, 1>>,
       <<0, 0, 1, 0, 1, 0, 1, 1>>, <<0, 0, 1, 0, 1, 1, 0, 1>>,
       <<0, 0, 1, 0, 1, 1, 1, 1>>, <<0, 0, 1, 1, 0, 1, 0, 1>>,
       <<0, 0, 1, 1, 0, 1, 1, 1>>, <<0, 0, 1, 1, 1, 0, 1, 1>>,
       <<0, 0, 1, 1, 1, 1, 0, 1>>, <<0, 0, 1, 1, 1, 1, 1, 1>>,
       <<0, 1, 0, 0, 0, 0, 1, 1>>, <<0, 1, 0, 0, 0, 1, 1, 1>>,
       <<0, 1, 0, 0, 1, 0, 1, 1>>, <<0, 1, 0, 0, 1, 1, 1, 1>>,
       <<0, 1, 0, 1, 0, 0, 1, 1>>, <<0, 1, 0, 1, 0, 1, 1, 1>>,
       <<0, 1, 0, 1, 1, 0, 1, 1>>, <<0, 1, 0, 1, 1, 1, 1, 1>>,
       <<0, 1, 1, 0, 0, 1, 1, 1>>, <<0, 1, 1, 0, 1, 1, 1, 1>>,
       <<0, 1, 1, 1, 1, 1, 1, 1>>, <<1, 0, 0, 0, 0, 0, 0, 0>>,
       <<1, 0, 0, 1, 0, 0, 0, 0>>, <<1, 0, 0, 1, 1, 0, 0, 0>>,
       <<1, 0, 1, 0, 0, 0, 0, 0>>, <<1, 0, 1, 0, 0, 1, 0, 0>>,
       <<1, 0, 1, 0, 1, 0, 0, 0>>, <<1, 0, 1, 0, 1, 1, 0, 0>>,
       <<1, 0, 1, 1, 0, 0, 0, 0>>, <<1, 0, 1, 1, 0, 1, 0, 0>>,
       <<1, 0, 1, 1, 1, 0, 0, 0>>, <<1, 0, 1, 1, 1, 1, 0, 0>>,
       <<1, 1, 0, 0, 0, 0, 0, 0>>, <<1, 1, 0, 0, 0, 0, 1, 0>>,
       <<1, 1, 0, 0, 0, 1, 0, 0>>, <<1, 1, 0, 0, 1, 0, 0, 0>>,
       <<1, 1, 0, 0, 1, 0, 1, 0>>, <<1, 1, 0, 1, 0, 0, 0, 0>>,
       <<1, 1, 0, 1, 0, 0, 1, 0>>, <<1, 1, 0, 1, 0, 1, 0, 0>>,
       <<1, 1, 0, 1, 1, 0, 0, 0>>, <<1, 1, 0, 1, 1, 0, 1, 0>>,
       <<1, 1, 0, 1, 1, 1, 0, 0>>, <<1, 1, 1, 0, 0, 0, 0, 0>>,
       <<1, 1, 1, 0, 0, 0, 1, 0>>, <<1, 1, 1, 0, 0, 1, 0, 0>>,
       <<1, 1, 1, 0, 0, 1, 1, 0>>, <<1, 1, 1, 0, 1, 0, 0, 0>>,
       <<1, 1, 1, 0, 1, 0, 1, 0>>, <<1, 1, 1, 0, 1, 1, 0, 0>>,
       <<1, 1, 1, 1, 0, 0, 0, 0>>, <<1, 1, 1, 1, 0, 0, 1, 0>>,
       <<1, 1, 1, 1, 0, 1, 0, 0>>, <<1, 1, 1, 1, 0, 1, 1, 0>>,
       <<1, 1, 1, 1, 1, 0, 0, 0>>, <<1, 1, 1, 1, 1, 0, 1, 0>>,
       <<1, 1, 1, 1, 1, 1, 0, 0>>, <<1, 1, 1, 1, 1, 1, 1, 0>>>> >>

NonOverlappingTemplateMatchingTest ==
  [class |-> "NonOverlappingTemplateMatchingTest",
   name |-> "Non Overlapping Template Matching",
   _blocks_number |-> 8,
   _last_bits_size |-> -1, _substring_bits_length |-> -1]

\* What random.choice(random.choice(self._templates)) can return.
NonOverlappingTemplateMatching_choices ==
  {NonOverlappingTemplateMatching_templates[g][t] :
     <<g, t>> \in {<<a, b>> \in (1..7) \X (1..74) :
                     b <= Len(NonOverlappingTemplateMatching_templates[a])}}

\* The matches counted in one block: the scan moves past a match.
RECURSIVE NonOverlappingTemplateMatching_count(_, _, _, _, _)
NonOverlappingTemplateMatching_count(block, b_template, limit, position, count) ==
  IF position < limit
    THEN IF Slice(block, position, position + Len(b_template)) = b_template
           THEN NonOverlappingTemplateMatching_count(block, b_template, limit,
                  position + Len(b_template), count + 1)
           ELSE NonOverlappingTemplateMatching_count(block, b_template, limit,
                  position + 1, count)
    ELSE count

\* The statistic of one call, for blocks of M = substring_bits_length bits
\* and a template of m bits: matches[i] = W_i, and
\*   mu = (M - m + 1) / 2^m,  sigma = M (2^m - 2 m + 1) / 2^(2 m);
\* a block with W matches adds
\*   (W - mu)^2 / sigma^2 = (2^m |2^m W - (M - m + 1)| / (M (2^m - 2 m + 1)))^2
\* to chi_square, which is in units of 1/10000.  With M = 0 the divisor is
\* 0.0 and numpy gives inf (divisor = 0 here, chi_square not computed).
NonOverlappingTemplateMatching_statistic(self, substring_bits_length, bits, b_template) ==
  LET m == Len(b_template)
      matches == Array([i \in 1..self._blocks_number |->
                    NonOverlappingTemplateMatching_count(
                      Slice(bits, (i - 1) * substring_bits_length,
                            i * substring_bits_length),
                      b_template, substring_bits_length - m, 0, 0)])
      deviations == Array([i \in 1..self._blocks_number |->
                       Abs(Pow(2, m) * matches[i] - (substring_bits_length - m + 1))])
      divisor == substring_bits_length * (Pow(2, m) - 2 * m + 1)
      squares == SumSeq([i \in 1..self._blocks_number |->
                           deviations[i] * deviations[i]])
  IN  [matches |-> matches, divisor |-> divisor, squares |-> squares,
       chi_square |-> IF divisor = 0 THEN 0
                      ELSE MulDiv(Pow(2, 2 * m) * squares, 10000, divisor * divisor)]

NonOverlappingTemplateMatching_execute(self, bits, b_template) ==
  LET reload == self._last_bits_size = -1 \/ self._last_bits_size # Len(bits)
      substring_bits_length ==
        IF reload THEN FloorDiv(Len(bits), self._blocks_number)
        ELSE self._substring_bits_length
      after == IF reload
                 THEN [self EXCEPT !._last_bits_size = Len(bits),
                                   !._substring_bits_length = substring_bits_length]
                 ELSE self
      statistic == NonOverlappingTemplateMatching_statistic(
                     self, substring_bits_length, bits, b_template)
      chi_is_zero == statistic.squares = 0
      score == Gammaincc(self._blocks_number, statistic.chi_square)
  IN  IF statistic.divisor # 0 /\ ~chi_is_zero /\ ScoreGE(score)
        THEN Exec(after, bits, Return(Result(self.name, TRUE, <<score>>)))
        ELSE Exec(after, bits, Return(Result(self.name, FALSE, <<Zero>>)))

NonOverlappingTemplateMatching_is_eligible(self, bits) == TRUE

\* ------------------------------------------- Overlapping Template Matching

OverlappingTemplateMatching_init(template_bits_length, blocks_number, substring_bits_length) ==
  [class |-> "OverlappingTemplateMatchingTest",
   name |-> "Overlapping Template Matching",
   _template_bits_length |-> template_bits_length,
   _blocks_number |-> blocks_number,
   _freedom_degrees |-> 5,
   _substring_bits_length |-> substring_bits_length]

OverlappingTemplateMatchingTest == OverlappingTemplateMatching_init(10, 968, 1062)

\* The six probabilities the test divides by, in units of 1/1000000: the
\* first five are _get_probabilities(0..4, eta) for
\* eta = (M - m + 1) / 2^m / 2, the last is 1.0 - numpy.sum(probabilities)
\* taken while the last entry still holds 0.139865.  Tabulated for
\* (M, m) = (1062, 10) and (4, 2).
OverlappingTemplateMatching_probabilities(self) ==
  IF self._substring_bits_length = 1062 /\ self._template_bits_length = 10
    THEN <<598003, 153735, 96628, 59888, 36687, -84805>>
    ELSE <<687289, 128867, 76515, 45053, 26337, -103926>>

\* (block[position:position + m] == b_template).all(): a slice of one bit
\* is broadcast against the template.
OverlappingTemplateMatching_match(block, position, m) ==
  \A j \in 1..Len(Slice(block, position, position + m)) :
     Slice(block, position, position + m)[j] = 1

\* A slice that is neither m bits nor one bit long cannot be compared with
\* the template: numpy raises ValueError (older releases return a plain
\* False, on which .all() raises AttributeError).
OverlappingTemplateMatching_mismatch(self, bits) ==
  \E i \in 0..(self._blocks_number - 1) :
    \E position \in 0..(self._substring_bits_length - self._template_bits_length - 1) :
       LET length == Len(Slice(Slice(bits, i * self._substring_bits_length,
                                     (i + 1) * self._substring_bits_length),
                               position, position + self._template_bits_length))
       IN  length # self._template_bits_length /\ length # 1

\* One term of chi_square, (observed - n p)^2 / (n p), in units of 1/10000;
\* it has the sign of p.
OverlappingTemplateMatching_term(observed, probability, blocks_number) ==
  LET diff == Abs(1000000 * observed - blocks_number * probability)
      size == MulDiv(diff, diff, 100 * blocks_number * Abs(probability))
  IN  IF probability < 0 THEN -size ELSE size

\* The statistic of one call: counts[i] is the count of block i, and
\* chi_square is in units of 1/10000.
OverlappingTemplateMatching_statistic(self, bits) ==
  LET m == self._template_bits_length
      count(i) ==
        Cardinality({position \in 0..(self._substring_bits_length - m - 1) :
           OverlappingTemplateMatching_match(
             Slice(bits, i * self._substring_bits_length,
                   (i + 1) * self._substring_bits_length), position, m)})
      counts == Array([i \in 1..self._blocks_number |-> count(i - 1)])
      matches_distributions ==
        Array([d \in 1..(self._freedom_degrees + 1) |->
           Cardinality({i \in 1..self._blocks_number :
                          Min(counts[i], self._freedom_degrees) = d - 1})])
      probabilities == OverlappingTemplateMatching_probabilities(self)
  IN  [counts |-> counts, matches_distributions |-> matches_distributions,
       chi_square |->
         SumSeq([d \in 1..(self._freedom_degrees + 1) |->
                   OverlappingTemplateMatching_term(matches_distributions[d],
                     probabilities[d], self._blocks_number)])]

OverlappingTemplateMatching_execute(self, bits) ==
  LET statistic == OverlappingTemplateMatching_statistic(self, bits)
      chi_square == statistic.chi_square
      score == Gammaincc(5, chi_square)
  IN  IF OverlappingTemplateMatching_mismatch(self, bits)
        THEN Exec(self, bits, Raise("ValueError"))
        ELSE IF chi_square # 0 /\ ScoreGE(score)
          THEN Exec(self, bits, Return(Result(self.name, TRUE, <<score>>)))
          ELSE Exec(self, bits, Return(Result(self.name, FALSE, <<Zero>>)))

OverlappingTemplateMatching_is_eligible(self, bits) ==
  ~ (Len(bits) < self._substring_bits_length * self._blocks_number)

\* -------------------------------------------------------- Maurers Universal

\* _expected_value_table in units of 1/10000 and _variance_table in units
\* of 1/1000, both rounded down; index L + 1.
MaurersUniversalTest ==
  [class |-> "MaurersUniversalTest", name |-> "Maurers Universal",
   _sequence_size_min |-> 387840,
   _default_pattern_size |-> 6,
   _thresholds |-> <<904960, 2068480, 4654080, 10342400, 22753280, 49643520,
                     107560960, 231669760, 496435200, 1059061760>>,
   _expected_value_table |->
     <<0, 7326, 15374, 24016, 33112, 42534, 52177, 61962, 71836, 81764,
       91723, 101700, 111687, 121680, 131676, 141674, 151673>>,
   _variance_table |->
     <<0, 690, 1338, 1901, 2358, 2705, 2954, 3125, 3238, 3311, 3356, 3384,
       3401, 3410, 3416, 3419, 3421>>,
   _last_bits_size |-> -1, _pattern_length |-> -1, _blocks_number |-> -1,
   _q_blocks |-> -1, _k_blocks |-> -1]

\* <<pattern_length, blocks_number, q_blocks, k_blocks>>
MaurersUniversal_shape(self, size) ==
  LET pattern_length ==
        self._default_pattern_size
        + Cardinality({t \in 1..Len(self._thresholds) : size >= self._thresholds[t]})
      blocks_number == FloorDiv(size, pattern_length)
      q_blocks == 10 * Pow(2, pattern_length)
  IN  <<pattern_length, blocks_number, q_blocks, blocks_number - q_blocks>>

\* The largest i in lo..hi with patterns[i] = v, or 0.
RECURSIVE LastIndex(_, _, _, _)
LastIndex(patterns, v, lo, hi) ==
  IF lo > hi THEN 0
  ELSE IF lo = hi THEN (IF patterns[lo] = v THEN lo ELSE 0)
  ELSE LET mid == (lo + hi) \div 2
           upper == LastIndex(patterns, v, mid + 1, hi)
       IN  IF upper # 0 THEN upper ELSE LastIndex(patterns, v, lo, mid)

\* The table after the first q_blocks blocks were entered: table[v] is the
\* (1-based) index of the last of them that reads v, or 0.
MaurersUniversal_initialize(bits, pattern_length, q_blocks) ==
  LET patterns == Array([i \in 1..q_blocks |->
                     pattern_to_int(Slice(bits, (i - 1) * pattern_length,
                                          i * pattern_length))])
  IN  [v \in 0..(Pow(2, pattern_length) - 1) |->
         LastIndex(patterns, v, 1, q_blocks)]

\* log2(difference) in units of 1/10000
Log2(difference) == MulDiv(Ln[difference], 10000, Ln[2])

\* computed_sum over the blocks i, i + 1, ..., blocks_number - 1
RECURSIVE MaurersUniversal_sum(_, _, _, _, _)
MaurersUniversal_sum(table, bits, pattern_length, i, blocks_number) ==
  IF i >= blocks_number THEN 0
  ELSE LET pattern == pattern_to_int(Slice(bits, i * pattern_length,
                                           (i + 1) * pattern_length))
       IN  Log2(i + 1 - table[pattern])
           + MaurersUniversal_sum([table EXCEPT ![pattern] = i + 1],
                                  bits, pattern_length, i + 1, blocks_number)

\* fn = computed_sum / k_blocks: ZeroDivisionError when k_blocks = 0.  The
\* argument of erfc squared is (fn - expected)^2 / (2 variance).
MaurersUniversal_execute(self, bits) ==
  LET reload == self._last_bits_size = -1 \/ self._last_bits_size # Len(bits)
      shape == IF reload THEN MaurersUniversal_shape(self, Len(bits))
               ELSE <<self._pattern_length, self._blocks_number,
                      self._q_blocks, self._k_blocks>>
      pattern_length == shape[1]
      blocks_number == shape[2]
      q_blocks == shape[3]
      k_blocks == shape[4]
      after == IF reload
                 THEN [self EXCEPT !._last_bits_size = Len(bits),
                                   !._pattern_length = pattern_length,
                                   !._blocks_number = blocks_number,
                                   !._q_blocks = q_blocks,
                                   !._k_blocks = k_blocks]
                 ELSE self
      table == MaurersUniversal_initialize(bits, pattern_length, q_blocks)
      computed_sum == MaurersUniversal_sum(table, bits, pattern_length,
                                           q_blocks, blocks_number)
      fn == IF computed_sum = 0 THEN 0 ELSE FloorDiv(computed_sum, k_blocks)
      diff == Abs(fn - self._expected_value_table[pattern_length + 1])
      score == Erfc(MulDiv(diff, diff, 10000),
                    20 * self._variance_table[pattern_length + 1])
  IN  IF k_blocks = 0
        THEN Exec(after, bits, Raise("ZeroDivisionError"))
        ELSE Exec(after, bits, Return(OneScoreResult(self, score)))

MaurersUniversal_is_eligible(self, bits) ==
  ~ (Len(bits) < self._sequence_size_min)

\* -------------------------------------------------------- Linear Complexity

LinearComplexity_init(sequence_size_min, pattern_length) ==
  [class |-> "LinearComplexityTest", name |-> "Linear Complexity",
   _sequence_size_min |-> sequence_size_min,
   _pattern_length |-> pattern_length,
   _freedom_degrees |-> 6,
   _last_bits_size |-> -1, _blocks_number |-> -1]

LinearComplexityTest == LinearComplexity_init(1000000, 512)

\* self._probabilities in units of 1/1000000
LinearComplexity_probabilities ==
  <<10417, 31250, 125000, 500000, 250000, 62500, 20833>>

\* self._mu = M / 2 + ((-1)^(M + 1) + 9) / 36 - (M / 3 + 2 / 9) / 2^M, in
\* units of 1/1000000; the last term is below that unit for M > 24.
LinearComplexity_mu(self) ==
  LET M == self._pattern_length
      sign == IF M % 2 = 0 THEN -1 ELSE 1
  IN  M * 500000 + ((sign + 9) * 1000000) \div 36
      - (IF M > 24 THEN 0 ELSE ((3 * M + 2) * 1000000) \div (9 * Pow(2, M)))

\* The inner loop of _berlekamp_massey, c[n - m + j] ^= b[j] for
\* j = from .. count - 1.  Once b was assigned t (a view of c), b[j] is read
\* from c as the loop has left it.
RECURSIVE LinearComplexity_update(_, _, _, _, _, _)
LinearComplexity_update(c, b, aliased, shift, j, count) ==
  IF j >= count THEN c
  ELSE LinearComplexity_update(
         [c EXCEPT ![shift + j + 1] =
            (c[shift + j + 1] + (IF aliased THEN c[j + 1] ELSE b[j + 1])) % 2],
         b, aliased, shift, j + 1, count)

\* discrepancy = sequence[n] ^ (c[1] & sequence[n - 1]) ^ ...
LinearComplexity_discrepancy(sequence, c, generator_length, n) ==
  (At(sequence, n)
   + Cardinality({j \in 1..generator_length :
                    At(c, j) = 1 /\ At(sequence, n - j) = 1})) % 2

\* A plausible slip in the loop: < for <= in the test of generator_length.
RECURSIVE LinearComplexity_loop_lt(_, _, _, _, _, _, _)
LinearComplexity_loop_lt(sequence, b, c, aliased, generator_length, m, n) ==
  IF n >= Len(sequence) THEN generator_length
  ELSE IF LinearComplexity_discrepancy(sequence, c, generator_length, n) # 0
    THEN LET updated == LinearComplexity_update(c, b, aliased, n - m, 0,
                                                Len(sequence) - n + m)
         IN  IF 2 * generator_length < n
               THEN LinearComplexity_loop_lt(sequence, updated, updated, TRUE,
                                             n + 1 - generator_length, n, n + 1)
               ELSE LinearComplexity_loop_lt(sequence, b, updated, aliased,
                                             generator_length, m, n + 1)
    ELSE LinearComplexity_loop_lt(sequence, b, c, aliased, generator_length, m, n + 1)

\* The while loop of _berlekamp_massey from step n on.
RECURSIVE LinearComplexity_loop(_, _, _, _, _, _, _)
LinearComplexity_loop(sequence, b, c, aliased, generator_length, m, n) ==
  IF n >= Len(sequence) THEN generator_length
  ELSE IF LinearComplexity_discrepancy(sequence, c, generator_length, n) # 0
    THEN LET updated == LinearComplexity_update(c, b, aliased, n - m, 0,
                                                Len(sequence) - n + m)
         IN  IF 2 * generator_length <= n
               THEN LinearComplexity_loop(sequence, updated, updated, TRUE,
                                          n + 1 - generator_length, n, n + 1)
               ELSE LinearComplexity_loop(sequence, b, updated, aliased,
                                          generator_length, m, n + 1)
    ELSE LinearComplexity_loop(sequence, b, c, aliased, generator_length, m, n + 1)

LinearComplexity_berlekamp_massey(sequence) ==
  LET start == Array([i \in 1..Len(sequence) |-> IF i = 1 THEN 1 ELSE 0])
  IN  LinearComplexity_loop(sequence, start, start, FALSE, 0, -1, 0)

\* The ticket of a block, T = (-1)^M (L - mu) + 2 / 9, in units of
\* 1/1000000.
LinearComplexity_ticket(self, complexity) ==
  LET sign == IF self._pattern_length % 2 = 0 THEN 1 ELSE -1
  IN  sign * (complexity * 1000000 - LinearComplexity_mu(self)) + 222222

\* The bin of a block: min(K, int(max(-2.5, T) + 2.5)).
LinearComplexity_bin(self, complexity) ==
  LET ticket == LinearComplexity_ticket(self, complexity)
  IN  Min(self._freedom_degrees, (Max(-2500000, ticket) + 2500000) \div 1000000)

\* One term of chi_square, (observed - n p)^2 / (n p), in units of 1/10000.
LinearComplexity_term(observed, probability, blocks_number) ==
  LET diff == Abs(1000000 * observed - blocks_number * probability)
  IN  MulDiv(diff, diff, 100 * blocks_number * probability)

\* With no whole block every term is 0.0 / 0.0: numpy gives nan.
LinearComplexity_execute(self, bits) ==
  LET reload == self._last_bits_size = -1 \/ self._last_bits_size # Len(bits)
      blocks_number == IF reload THEN FloorDiv(Len(bits), self._pattern_length)
                       ELSE self._blocks_number
      after == IF reload
                 THEN [self EXCEPT !._last_bits_size = Len(bits),
                                   !._blocks_number = blocks_number]
                 ELSE self
      bin(i) == LinearComplexity_bin(self, LinearComplexity_berlekamp_massey(
                  Slice(bits, i * self._pattern_length, (i + 1) * self._pattern_length)))
      bins == Array([i \in 1..blocks_number |-> bin(i - 1)])
      frequencies == Array([f \in 1..(self._freedom_degrees + 1) |->
                        Cardinality({i \in 1..blocks_number : bins[i] = f - 1})])
      chi_square == SumSeq([f \in 1..(self._freedom_degrees + 1) |->
                              LinearComplexity_term(frequencies[f],
                                LinearComplexity_probabilities[f], blocks_number)])
      score == IF blocks_number = 0 THEN NaN
               ELSE Gammaincc(self._freedom_degrees, chi_square)
  IN  Exec(after, bits, Return(OneScoreResult(self, score)))

LinearComplexity_is_eligible(self, bits) ==
  ~ (Len(bits) < self._sequence_size_min)

\* ----------------------------------------------------------- Test (base)

\* test._execute(bits): the outcomes the call can have.  Every kernel but
\* one has a single outcome; NonOverlappingTemplateMatchingTest draws its
\* template with random.choice and has one outcome per template.
Execute(self, bits) ==
  CASE self.class = "MonobitTest" -> {Monobit_execute(self, bits)}
    [] self.class = "FrequencyWithinBlockTest" ->
         {FrequencyWithinBlock_execute(self, bits)}
    [] self.class = "RunsTest" -> {Runs_execute(self, bits)}
    [] self.class = "LongestRunOnesInABlockTest" ->
         {LongestRunOnesInABlock_execute(self, bits)}
    [] self.class = "BinaryMatrixRankTest" -> {BinaryMatrixRank_execute(self, bits)}
    [] self.class = "DiscreteFourierTransformTest" ->
         {DiscreteFourierTransform_execute(self, bits)}
    [] self.class = "NonOverlappingTemplateMatchingTest" ->
         {NonOverlappingTemplateMatching_execute(self, bits, b_template) :
            b_template \in NonOverlappingTemplateMatching_choices}
    [] self.class = "OverlappingTemplateMatchingTest" ->
         {OverlappingTemplateMatching_execute(self, bits)}
    [] self.class = "MaurersUniversalTest" -> {MaurersUniversal_execute(self, bits)}
    [] self.class = "LinearComplexityTest" -> {LinearComplexity_execute(self, bits)}
    [] self.class = "SerialTest" -> {Serial_execute(self, bits)}
    [] self.class = "ApproximateEntropyTest" ->
         {ApproximateEntropy_execute(self, bits)}
    [] self.class = "CumulativeSumsTest" -> {CumulativeSums_execute(self, bits)}
    [] self.class = "RandomExcursionTest" -> {RandomExcursion_execute(self, bits)}
    [] self.class = "RandomExcursionVariantTest" ->
         {RandomExcursionVariant_execute(self, bits)}

\* test.is_eligible(bits)
IsEligible(self, bits) ==
  CASE self.class = "MonobitTest" -> Monobit_is_eligible(self, bits)
    [] self.class = "FrequencyWithinBlockTest" ->
         FrequencyWithinBlock_is_eligible(self, bits)
    [] self.class = "RunsTest" -> Runs_is_eligible(self, bits)
    [] self.class = "LongestRunOnesInABlockTest" ->
         LongestRunOnesInABlock_is_eligible(self, bits)
    [] self.class = "BinaryMatrixRankTest" -> BinaryMatrixRank_is_eligible(self, bits)
    [] self.class = "DiscreteFourierTransformTest" ->
         DiscreteFourierTransform_is_eligible(self, bits)
    [] self.class = "NonOverlappingTemplateMatchingTest" ->
         NonOverlappingTemplateMatching_is_eligible(self, bits)
    [] self.class = "OverlappingTemplateMatchingTest" ->
         OverlappingTemplateMatching_is_eligible(self, bits)
    [] self.class = "MaurersUniversalTest" -> MaurersUniversal_is_eligible(self, bits)
    [] self.class = "LinearComplexityTest" -> LinearComplexity_is_eligible(self, bits)
    [] self.class = "SerialTest" -> Serial_is_eligible(self, bits)
    [] self.class = "ApproximateEntropyTest" ->
         ApproximateEntropy_is_eligible(self, bits)
    [] self.class = "CumulativeSumsTest" -> CumulativeSums_is_eligible(self, bits)
    [] self.class = "RandomExcursionTest" -> RandomExcursion_is_eligible(self, bits)
    [] self.class = "RandomExcursionVariantTest" ->
         RandomExcursionVariant_is_eligible(self, bits)

\* test.run(bits): _execute between two clock readings; the value returned
\* is the pair (result, end_time - start_time).  The clock is not modelled:
\* the second component is the token "elapsed_time".
Run(self, bits) ==
  {IF e.out.kind = "return"
     THEN Exec(e.self, e.bits, Return(<<e.out.value, "elapsed_time">>))
     ELSE e : e \in Execute(self, bits)}

\* ------------------------------------------------------ the sequences fed

Ones(n) == Array([i \in 1..n |-> 1])

Zeros(n) == Array([i \in 1..n |-> 0])

\* pattern repeated up to n bits
Repeat(pattern, n) == Array([i \in 1..n |-> pattern[((i - 1) % Len(pattern)) + 1]])

\* One block of size bits per entry of counts: counts[k] ones, then zeros.
UnaryBlocks(counts, size) ==
  Array([i \in 1..(Len(counts) * size) |->
           IF ((i - 1) % size) < counts[((i - 1) \div size) + 1] THEN 1 ELSE 0])

\* s with a one at each position of at (1-based)
WithOnes(s, at) == Array([i \in 1..Len(s) |-> IF i \in at THEN 1 ELSE s[i]])

\* A de Bruijn cycle of order 4: every pattern of 4 bits once per turn.
DeBruijn4 == <<0, 0, 0, 0, 1, 0, 0, 1, 1, 0, 1, 0, 1, 1, 1, 1>>

\* The sequences every test is fed: all of length 1..MaxLen and four
\* longer ones.
CommonInputs ==
  BitSeqs(1, MaxLen)
    \cup {Ones(7), <<1, 1, 0, 1, 0, 1, 0>>, <<0>> \o Ones(9), Repeat(<<1, 0>>, 10)}

\* The sequences fed to one test beyond the common ones: sequences long
\* enough for the test to be eligible or for its blocks to be whole.
LongInputs(self) ==
  CASE self.class = "FrequencyWithinBlockTest" ->
         {UnaryBlocks(<<10, 10, 10, 10, 10>>, 20), UnaryBlocks(<<4, 16, 10, 10, 10>>, 20),
          Zeros(100), Repeat(Ones(20) \o Zeros(20), 1000)}
    [] self.class = "LongestRunOnesInABlockTest" ->
         {UnaryBlocks(<<1, 1, 2, 2, 2, 2, 2, 3, 3, 3, 3, 3, 4, 4, 4, 5>>, 8),
          Repeat(<<1, 1, 0, 1, 1, 1, 0, 0>>, 128), Zeros(128)}
    [] self.class = "SerialTest" ->
         {Repeat(DeBruijn4, 64), Repeat(<<0, 1>>, 64),
          Repeat(DeBruijn4, 32) \o Repeat(<<0, 0, 0, 1, 0, 1, 1, 1>>, 32)}
    [] self.class = "NonOverlappingTemplateMatchingTest" ->
         {Repeat(<<0, 1, 1>>, 24), Repeat(<<1, 0, 0, 1>>, 32)}
    [] self.class = "BinaryMatrixRankTest" ->
         {Zeros(1024), WithOnes(Zeros(1024), {1, 33}), Zeros(2048)}
    [] self.class = "OverlappingTemplateMatchingTest" ->
         IF self._template_bits_length = 10
           THEN {Ones(1062)}
           ELSE {Ones(8), Zeros(8), <<1, 1, 0, 0, 1, 1, 1, 0>>,
                 <<1, 1, 0, 1, 1, 1, 1, 1>>}
    [] self.class = "RandomExcursionTest" ->
         {<<1, 1, 0, 1, 0, 1, 0, 1, 0, 1, 0>>, <<1, 0, 1, 0, 0, 1>>}
    [] self.class = "LinearComplexityTest" ->
         IF self._pattern_length = 512
           THEN {}
           ELSE {Zeros(8), <<1, 1, 0, 1, 0, 0, 1, 0>>, <<0, 0, 0, 1, 1, 0, 1, 1>>}
    [] OTHER -> {}

\* A call of NonOverlappingTemplateMatchingTest has one outcome per template
\* (158 of them): it is fed fewer sequences.
Inputs(self) ==
  IF self.class = "NonOverlappingTemplateMatchingTest"
    THEN {<<1>>, <<0, 1>>} \cup LongInputs(self)
    ELSE CommonInputs \cup LongInputs(self)

\* -------------------------------------------------------- the instances

\* The battery's fifteen tests as __init__ leaves them, in the battery's
\* order.
SP800_22R1A_TESTS ==
  <<MonobitTest, FrequencyWithinBlockTest, RunsTest, LongestRunOnesInABlockTest,
    BinaryMatrixRankTest, DiscreteFourierTransformTest,
    NonOverlappingTemplateMatchingTest, OverlappingTemplateMatchingTest,
    MaurersUniversalTest, LinearComplexityTest, SerialTest,
    ApproximateEntropyTest, CumulativeSumsTest, RandomExcursionTest,
    RandomExcursionVariantTest>>

\* Two tests with their __init__ literals scaled down, so that whole blocks
\* fit in sequences that can be enumerated: templates of 2 bits in 2 blocks
\* of 4 bits, linear complexity over blocks of 4 bits.  Their code is the
\* code of the full-size tests, which on sequences this short only raise
\* (OverlappingTemplateMatchingTest) or score NaN (LinearComplexityTest).
ScaledTests ==
  {OverlappingTemplateMatching_init(2, 2, 4), LinearComplexity_init(8, 4)}

\* ----------------------------------------------------------------- state

VARIABLES
  tests,          \* the test objects alive, by object id
  _cached_tests,  \* functions._cached_tests: <<name, object id>> pairs
  bits,           \* the caller's bit array
  call,           \* the last call made: its arguments as passed and its outcome
  mem             \* an earlier Test._execute call, kept for comparison

vars == <<tests, _cached_tests, bits, call, mem>>

\* No call made yet.  A call is recorded with the arguments as they were
\* passed (bits: the array's contents at entry), the names the driver looked
\* up, in order, the object ids of the tests whose _execute ran, in order,
\* and the value returned or exception raised.
NoCall == [op |-> "none", name |-> "", battery |-> <<>>, check_eligibility |-> FALSE,
           bits |-> <<>>, visited |-> <<>>, executed |-> <<>>, out |-> Return(<<>>)]

\* ------------------------------------------------- one test, called directly

TestInit ==
  /\ \E t \in {SP800_22R1A_TESTS[i] : i \in 1..15} \cup ScaledTests : tests = <<t>>
  /\ _cached_tests = <<>>
  /\ bits \in Inputs(tests[1])
  /\ call = NoCall
  /\ mem = NoCall

\* The caller builds another array.
Test_NewBits ==
  /\ \E b \in Inputs(tests[1]) : bits' = b
  /\ call' = NoCall
  /\ UNCHANGED <<tests, _cached_tests, mem>>

\* test._execute(bits).  The call is remembered in mem, or the call
\* remembered before it is kept.
Test_execute ==
  \E e \in Execute(tests[1], bits) :
    /\ tests' = <<e.self>>
    /\ bits' = e.bits
    /\ call' = [NoCall EXCEPT !.op = "execute", !.bits = bits,
                              !.executed = <<1>>, !.out = e.out]
    /\ mem' \in {mem, call'}
    /\ UNCHANGED _cached_tests

\* test.is_eligible(bits)
Test_is_eligible ==
  /\ call' = [NoCall EXCEPT !.op = "is_eligible", !.bits = bits,
                            !.out = Return(IsEligible(tests[1], bits))]
  /\ UNCHANGED <<tests, _cached_tests, bits, mem>>

TestNext == Test_NewBits \/ Test_execute \/ Test_is_eligible

TestSpec == TestInit /\ [][TestNext]_vars

\* ------------------------------------- is_eligible, called on long arrays

\* The tests whose is_eligible reads bits.size, as the battery builds them.
SizeGatedTests ==
  {FrequencyWithinBlockTest, LongestRunOnesInABlockTest, BinaryMatrixRankTest,
   OverlappingTemplateMatchingTest, MaurersUniversalTest, LinearComplexityTest,
   SerialTest}

\* The size from which the documentation calls a test eligible.
Threshold(self) ==
  CASE self.class = "FrequencyWithinBlockTest" -> 100
    [] self.class = "LongestRunOnesInABlockTest" -> 128
    [] self.class = "BinaryMatrixRankTest" -> 38 * 1024
    [] self.class = "OverlappingTemplateMatchingTest" -> 1028016
    [] self.class = "MaurersUniversalTest" -> 387840
    [] self.class = "LinearComplexityTest" -> 1000000
    [] self.class = "SerialTest" -> 64

\* The sizes a test is asked about: every size up to 200, the sizes next to
\* the matrix rank's 38 blocks, and the sizes next to its own threshold.
EligibleSizes(self) ==
  (1..200) \cup {38911, 38912, 38913}
    \cup {Threshold(self) - 1, Threshold(self), Threshold(self) + 1}

\* Two arrays of each size.
EligibleInputs(self) ==
  UNION {{Zeros(n), Ones(n)} : n \in EligibleSizes(self)}

EligibleInit ==
  /\ \E t \in SizeGatedTests : tests = <<t>>
  /\ _cached_tests = <<>>
  /\ bits \in EligibleInputs(tests[1])
  /\ call = NoCall
  /\ mem = NoCall

EligibleSpec == EligibleInit /\ [][Test_is_eligible]_vars

\* ------------------------------------------ BinaryMatrix, called directly

\* The square blocks of 0s and 1s of one size.
Blocks(n) == [1..n -> [1..n -> {0, 1}]]

\* matrix = BinaryMatrix(block, n, n) on a block of its own
MatrixInit ==
  /\ \E n \in 1..MaxRows : \E block \in Blocks(n) :
       tests = <<BinaryMatrix(Array([r \in 1..n |-> Array(block[r])]), n, n)>>
  /\ _cached_tests = <<>>
  /\ bits = <<>>
  /\ call = NoCall
  /\ mem = NoCall

\* matrix.compute_rank(): the matrix is left as the elimination leaves it.
\* The call records the block as it was at entry.
Matrix_compute_rank ==
  LET done == BinaryMatrix_compute_rank(tests[1])
  IN  /\ tests' = <<done[1]>>
      /\ call' = [NoCall EXCEPT !.op = "compute_rank", !.bits = tests[1]._matrix,
                                !.executed = <<1>>, !.out = Return(done[2])]
      /\ UNCHANGED <<_cached_tests, bits, mem>>

MatrixSpec == MatrixInit /\ [][Matrix_compute_rank]_vars

\* ------------------------- LinearComplexityTest._berlekamp_massey, called

\* 1, 0, ..., 0
Impulse(n) == Array([i \in 1..n |-> IF i = 1 THEN 1 ELSE 0])

\* The sequences handed to the kernel: every sequence of 1..MaxBits bits,
\* and the all-zero and the impulse sequence of every length up to a block
\* of MaxBlock bits.
BerlekampMasseyInputs ==
  BitSeqs(1, MaxBits) \cup UNION {{Zeros(n), Impulse(n)} : n \in 1..MaxBlock}

BerlekampMasseyInit ==
  /\ tests = <<>>
  /\ _cached_tests = <<>>
  /\ bits \in BerlekampMasseyInputs
  /\ call = NoCall
  /\ mem = NoCall

\* LinearComplexityTest._berlekamp_massey(bits)
Call_berlekamp_massey ==
  /\ call' = [NoCall EXCEPT !.op = "_berlekamp_massey", !.bits = bits,
                            !.out = Return(LinearComplexity_berlekamp_massey(bits))]
  /\ UNCHANGED <<tests, _cached_tests, bits, mem>>

BerlekampMasseySpec == BerlekampMasseyInit /\ [][Call_berlekamp_massey]_vars

\* ------------------- ApproximateEntropyTest: the block length of a reload

\* The sizes the block length is computed from: every size up to 100, the
\* sizes next to the powers of two up to 2^20, and 1,000,000.
BlocksLengthSizes ==
  (1..100) \cup UNION {{Pow(2, k) - 1, Pow(2, k)} : k \in 7..20} \cup {1000000}

BlocksLengthInit ==
  /\ tests = <<ApproximateEntropyTest>>
  /\ _cached_tests = <<>>
  /\ \E n \in BlocksLengthSizes : bits = Zeros(n)
  /\ call = NoCall
  /\ mem = NoCall

\* blocks_length as line 52 of test_approximate_entropy.py computes it for
\* bits
Call_blocks_length ==
  /\ call' = [NoCall EXCEPT !.op = "blocks_length", !.bits = bits,
                            !.out = Return(ApproximateEntropy_blocks_length(Len(bits)))]
  /\ UNCHANGED <<tests, _cached_tests, bits, mem>>

BlocksLengthSpec == BlocksLengthInit /\ [][Call_blocks_length]_vars

\* ------------------------------------------- claims about a single test

\* The call recorded in c was test._execute and returned a Result.
ExecuteReturned(c) == c.op = "execute" /\ c.out.kind = "return"

AllScoresGE(score_list) == \A i \in 1..Len(score_list) : ScoreGE(score_list[i])

AllScoresInUnit(score_list) == \A i \in 1..Len(score_list) : ScoreInUnit(score_list[i])

\* C2: the bit sequence passed to a test is unchanged by the call: after
\* _execute the caller's array holds what it held at entry.
C2_BitsUnchangedByExecute ==
  call.op = "execute" => bits = call.bits

\* C3: for every Result a test returns, passed is true if and only if every
\* entry of the score vector is >= the significance value 0.01.
C3_PassedIffAllScoresGE ==
  ExecuteReturned(call) =>
    (call.out.value._success <=> AllScoresGE(call.out.value._score_list))

\* C3 happens: a Result with two or more scores of which one is >= 0.01 and
\* another is not, and which did not pass.
C3_Witness ==
  /\ ExecuteReturned(call)
  /\ ~call.out.value._success
  /\ \E i, j \in 1..Len(call.out.value._score_list) :
       /\ ScoreGE(call.out.value._score_list[i])
       /\ ~ScoreGE(call.out.value._score_list[j])

\* C4: every entry of the score vector a test returns for a sequence it is
\* eligible for lies in [0, 1].
C4_ScoresInUnitInterval ==
  (ExecuteReturned(call) /\ IsEligible(tests[1], call.bits)) =>
    AllScoresInUnit(call.out.value._score_list)

\* C9: on every sequence of length >= 1 a test is eligible for, _execute
\* returns a Result and raises no exception.
C9_EligibleExecuteReturns ==
  (call.op = "execute" /\ Len(call.bits) >= 1 /\ IsEligible(tests[1], call.bits)) =>
    call.out.kind = "return"

\* Two recorded _execute calls have the same outcome: both raise, or both
\* return Results with the same passed flag and the same score vector.
SameOutcome(c, d) ==
  /\ c.out.kind = d.out.kind
  /\ c.out.kind = "return" =>
       /\ c.out.value._success = d.out.value._success
       /\ c.out.value._score_list = d.out.value._score_list

\* C10 as claimed: for every test instance, two _execute calls on equal bit
\* sequences, consecutive or separated by other calls, have the same
\* outcome.
C10_ExecuteIsPure ==
  (mem.op = "execute" /\ call.op = "execute" /\ mem.bits = call.bits) =>
    SameOutcome(mem, call)

\* C10 as amended: the same, for every test but
\* NonOverlappingTemplateMatchingTest, which draws its template at random
\* in every call.
C10_ExecuteIsPureButNonOverlapping ==
  (/\ mem.op = "execute" /\ call.op = "execute" /\ mem.bits = call.bits
   /\ tests[1].class # "NonOverlappingTemplateMatchingTest") =>
    SameOutcome(mem, call)

\* C10 happens: a test that caches its shape returned a passing Result for
\* a sequence in an earlier call and in the last call.
C10_Witness ==
  /\ ExecuteReturned(mem) /\ ExecuteReturned(call)
  /\ mem.bits = call.bits
  /\ tests[1].class = "FrequencyWithinBlockTest"
  /\ call.out.value._success

\* The derived parameters a test instance holds after a call: the ones the
\* call loaded from the cache or computed and saved, and used.
ShapeUsed(self) ==
  CASE self.class = "FrequencyWithinBlockTest" ->
         <<self._block_size, self._blocks_number>>
    [] self.class = "LongestRunOnesInABlockTest" ->
         <<self._block_size, self._blocks_number, self._k>>
    [] self.class = "MaurersUniversalTest" ->
         <<self._pattern_length, self._blocks_number, self._q_blocks, self._k_blocks>>

\* The derived parameters computed from scratch for a sequence of size bits.
ShapeFromScratch(self, size) ==
  CASE self.class = "FrequencyWithinBlockTest" -> FrequencyWithinBlock_shape(self, size)
    [] self.class = "LongestRunOnesInABlockTest" -> LongestRunOnesInABlock_shape(size)
    [] self.class = "MaurersUniversalTest" -> MaurersUniversal_shape(self, size)

ShapeCachingTests ==
  {"FrequencyWithinBlockTest", "LongestRunOnesInABlockTest", "MaurersUniversalTest"}

\* C11: the one-slot shape cache never changes a result: in every _execute
\* call of a sequence of calls on one instance, with sequences of varying
\* lengths, the derived parameters used (block size, block count, K,
\* pattern length, Q and K block counts) are those computed from scratch
\* from the length of that call's sequence.
C11_ShapeCacheIsTransparent ==
  (call.op = "execute" /\ tests[1].class \in ShapeCachingTests) =>
    /\ tests[1]._last_bits_size = Len(call.bits)
    /\ ShapeUsed(tests[1]) = ShapeFromScratch(tests[1], Len(call.bits))

\* C11 happens: an instance that has served a shorter sequence serves one of
\* 100 bits with the shape of 5 blocks of 20 bits.
C11_Witness ==
  /\ ExecuteReturned(call) /\ mem.op = "execute"
  /\ tests[1].class = "FrequencyWithinBlockTest"
  /\ Len(mem.bits) < Len(call.bits) /\ Len(call.bits) = 100
  /\ ShapeUsed(tests[1]) = <<20, 5>>

\* C12: for each size-gated test is_eligible depends only on the size N of
\* the array and is a threshold in N: it returns False for every N below
\* N* and True for every N >= N*, with N* = 100 (frequency within block),
\* 128 (longest run), 38 * 1024 (binary matrix rank), 1,028,016 (overlapping
\* template), 387,840 (Maurer), 1,000,000 (linear complexity) and 64
\* (serial); so at N = 50 the five tests other than longest run and serial
\* named by the claim are ineligible.
C12_EligibleIffSizeAtLeastThreshold ==
  (call.op = "is_eligible" /\ tests[1] \in SizeGatedTests) =>
    call.out = Return(Len(call.bits) >= Threshold(tests[1]))

\* is_eligible has answered True for the binary matrix rank test at exactly
\* 38 blocks of 32 x 32 bits.
C12_Witness ==
  /\ call.op = "is_eligible" /\ tests[1].class = "BinaryMatrixRankTest"
  /\ Len(call.bits) = 38 * 1024
  /\ call.out = Return(TRUE)


\* numpy's block.T
Transpose(block) ==
  Array([c \in 1..Len(block) |-> Array([r \in 1..Len(block) |-> block[r][c]])])

\* The rank of a fresh BinaryMatrix on a copy of block.
RankOf(block) ==
  BinaryMatrix_compute_rank(BinaryMatrix(block, Len(block), Len(block)))[2]

\* C13: for every square binary matrix M given to the rank kernel (n x n,
\* n up to MaxRows), compute_rank(M) equals compute_rank of the transpose of
\* M, and the rank returned lies between 0 and n inclusive.
C13_RankOfTransposeAndRange ==
  call.op = "compute_rank" =>
    /\ call.out.kind = "return"
    /\ call.out.value = RankOf(Transpose(call.bits))
    /\ call.out.value \in 0..Len(call.bits)

\* compute_rank has returned 2 for a 4 x 4 matrix that is not symmetric: its
\* first two rows are 0 1 0 0 and 0 0 1 0, the others are zero.
C13_Witness ==
  /\ call.op = "compute_rank"
  /\ call.bits = <<(<<0, 1, 0, 0>>), (<<0, 0, 1, 0>>), (<<0, 0, 0, 0>>), (<<0, 0, 0, 0>>)>>
  /\ call.out = Return(2)


\* C15: the Berlekamp-Massey kernel returns L = 0 for the all-zero sequence
\* of every length n >= 1 (n up to MaxBlock), and L = 1 for the impulse
\* sequence 1, 0, ..., 0 of every length n >= 1.
C15_ZeroAndImpulseComplexity ==
  call.op = "_berlekamp_massey" =>
    /\ call.bits = Zeros(Len(call.bits)) => call.out = Return(0)
    /\ call.bits = Impulse(Len(call.bits)) => call.out = Return(1)

\* The kernel has returned 1 for the impulse sequence of MaxBlock bits.
C15_Witness ==
  /\ call.op = "_berlekamp_massey"
  /\ call.bits = Impulse(MaxBlock)
  /\ call.out = Return(1)


\* 20 ones, 20 zeros, 25 times
BiasedBlocks == Repeat(Ones(20) \o Zeros(20), 1000)

\* The number of ones in block i (from 1) of the blocks the last call formed.
OnesInBlock(i) ==
  count_nonzero(Slice(call.bits, (i - 1) * tests[1]._block_size,
                      i * tests[1]._block_size))

\* FrequencyWithinBlockTest._execute has returned for BiasedBlocks.
BiasedBlocksExecuted ==
  /\ ExecuteReturned(call)
  /\ tests[1].class = "FrequencyWithinBlockTest"
  /\ call.bits = BiasedBlocks

\* C16, as stated: frequency within block on N = 1000, bits = (1^20 0^20)^25:
\* every block the test forms has a proportion of ones equal to 0.5, so
\* chi-square is 0, the score is 1.0 and the test passes.
C16_BiasedBlocksPass ==
  BiasedBlocksExecuted =>
    /\ \A i \in 1..tests[1]._blocks_number : 2 * OnesInBlock(i) = tests[1]._block_size
    /\ call.out.value._score_list = <<Gammaincc(tests[1]._blocks_number, 0)>>
    /\ call.out.value._success

\* C16, amended: frequency within block on N = 1000, bits = (1^20 0^20)^25:
\* the test forms 50 blocks of 20 bits, every one with a proportion of ones
\* equal to 1 or to 0, so chi-square is 1000, the score is gammaincc(25, 500)
\* (below 0.01) and the test fails.
C16_BiasedBlocksFail ==
  BiasedBlocksExecuted =>
    /\ tests[1]._block_size = 20 /\ tests[1]._blocks_number = 50
    /\ \A i \in 1..50 : OnesInBlock(i) = IF i % 2 = 1 THEN 20 ELSE 0
    /\ call.out.value._score_list = <<Gammaincc(50, 1000 * 10000)>>
    /\ ~ScoreGE(call.out.value._score_list[1])
    /\ ~call.out.value._success

\* The call has been made on a fresh instance and after a call on a
\* sequence of another size.
C16_Witness ==
  /\ BiasedBlocksExecuted
  /\ mem.op = "execute" /\ Len(mem.bits) = 100
  /\ tests[1]._last_bits_size = 1000


\* The sum mod 2 of the rows of block picked by the set of indices.
XorRows(block, picked) ==
  Array([c \in 1..Len(block) |->
           Cardinality({r \in picked : block[r][c] = 1}) % 2])

\* The row space of block over GF(2).
RowSpace(block) == {XorRows(block, picked) : picked \in SUBSET (1..Len(block))}

\* Gaussian elimination mod 2 on the set of rows left, from column col on:
\* any row with a 1 in the column is the pivot; it is taken out and added to
\* every other row with a 1 in the column.
RECURSIVE ReferenceRank(_, _, _)
ReferenceRank(rows, col, columns) ==
  IF col > columns \/ rows = {} THEN 0
  ELSE LET with == {row \in rows : row[col] = 1}
       IN  IF with = {} THEN ReferenceRank(rows, col + 1, columns)
           ELSE LET pivot == CHOOSE row \in with : TRUE
                    reduced == {Array([c \in 1..columns |-> (row[c] + pivot[c]) % 2]) :
                                  row \in with \ {pivot}}
                IN  1 + ReferenceRank((rows \ with) \cup reduced, col + 1, columns)

\* C17: for every square binary matrix (n x n, n up to MaxRows),
\* BinaryMatrix.compute_rank returns the GF(2) rank of the matrix: the rank
\* found by a reference Gaussian elimination mod 2 that pivots on any row
\* with a 1 in the current column, which is the dimension of the row space.
C17_RankIsGF2Rank ==
  call.op = "compute_rank" =>
    /\ call.out = Return(ReferenceRank({call.bits[r] : r \in 1..Len(call.bits)}, 1,
                                       Len(call.bits)))
    /\ Pow(2, call.out.value) = Cardinality(RowSpace(call.bits))

\* compute_rank has returned 3 for a 4 x 4 matrix whose first column starts
\* with a 0 and whose third row is the sum of the first two.
C17_Witness ==
  /\ call.op = "compute_rank"
  /\ call.bits = <<(<<0, 0, 1, 1>>), (<<1, 0, 1, 0>>), (<<1, 0, 0, 1>>), (<<0, 1, 0, 0>>)>>
  /\ call.out = Return(3)


\* An LFSR of the given length with feedback taps coef generates sequence:
\* every bit from the (length + 1)-th on is the sum mod 2 of the tapped
\* bits before it.
Generates(sequence, length, coef) ==
  \A n \in (length + 1)..Len(sequence) :
    sequence[n] = Cardinality({j \in 1..length : coef[j] = 1 /\ sequence[n - j] = 1}) % 2

\* The length of the shortest LFSR over GF(2) that generates sequence, from
\* the given length up.
RECURSIVE ShortestLFSR(_, _)
ShortestLFSR(sequence, length) ==
  IF \E coef \in [1..length -> {0, 1}] : Generates(sequence, length, coef)
    THEN length
    ELSE ShortestLFSR(sequence, length + 1)

\* C18: for every bit sequence (of up to MaxBits bits), _berlekamp_massey
\* returns the linear complexity of the sequence: the length of the
\* shortest LFSR over GF(2) that generates it.
C18_BerlekampMasseyIsLinearComplexity ==
  call.op = "_berlekamp_massey" =>
    call.out = Return(ShortestLFSR(call.bits, 0))


\* xi(x): the number of occurrences of x in S'.
Xi(sequence, x) ==
  Cardinality({i \in 1..Len(SumPrime(sequence)) : SumPrime(sequence)[i] = x})

\* J: the number of zeros of S' after its first element.
CyclesOf(sequence) ==
  Cardinality({i \in 2..Len(SumPrime(sequence)) : SumPrime(sequence)[i] = 0})

\* The states -9..-1, 1..9 the walk visits, in ascending order.
VisitedStates(sequence) ==
  SelectSeq([i \in 1..19 |-> i - 10], LAMBDA x : x # 0 /\ Xi(sequence, x) > 0)

\* RandomExcursionVariantTest._execute has returned.
VariantExecuted ==
  ExecuteReturned(call) /\ tests[1].class = "RandomExcursionVariantTest"

\* C19: random excursion variant: the score reported for a state x is
\* erfc(|xi(x) - J| / sqrt(2 J (4 |x| - 2))), so it is 1 when xi(x) = J; a
\* walk in which xi(x) = J for every visited state passes the test.
C19_VariantScoreIsErfc ==
  VariantExecuted =>
    LET visited == VisitedStates(call.bits)
        cycles == CyclesOf(call.bits)
        scores == call.out.value._score_list
    IN  /\ Len(scores) = Len(visited)
        /\ \A i \in 1..Len(visited) :
             scores[i] = Erfc((Xi(call.bits, visited[i]) - cycles)
                                * (Xi(call.bits, visited[i]) - cycles),
                              2 * cycles * (4 * Abs(visited[i]) - 2))
        /\ (\A i \in 1..Len(visited) : Xi(call.bits, visited[i]) = cycles)
             => call.out.value._success


\* The eighteen states, in ascending order.
States == SelectSeq([i \in 1..19 |-> i - 10], LAMBDA x : x # 0)

\* C20: random excursion variant returns one score for each of the eighteen
\* states x in -9..-1, 1..9, for every bit sequence: the score vector has
\* exactly 18 entries, in a fixed order of the states (entry i is computed
\* from |x| of the i-th state), the states the walk never visits included.
C20_VariantEighteenScores ==
  VariantExecuted =>
    LET scores == call.out.value._score_list
    IN  /\ Len(scores) = 18
        /\ \A i \in 1..18 :
             scores[i][3] = 2 * CyclesOf(call.bits) * (4 * Abs(States[i]) - 2)


\* RandomExcursionTest._execute has returned.
ExcursionExecuted ==
  ExecuteReturned(call) /\ tests[1].class = "RandomExcursionTest"

\* The cycles the last call built.
CyclesBuilt == Cycles(SumPrime(call.bits), 0, <<0>>)

\* C21: random excursion: for each state x in -4..-1, 1..4, every cycle is
\* counted in exactly one of the six bins k = 0, 1, 2, 3, 4, >= 5 (bin k < 5
\* holds the cycles that visit x exactly k times, bin 5 those that visit it
\* 5 times or more), so the six counts V_k(x) sum to the number of cycles J.
C21_ExcursionBinsPartitionCycles ==
  ExcursionExecuted =>
    \A x \in {-4, -3, -2, -1, 1, 2, 3, 4} :
      /\ \A k \in 0..5 :
           RandomExcursion_frequency(CyclesBuilt, x, k)
             = Cardinality({c \in 1..Len(CyclesBuilt) :
                 LET visits == Cardinality({i \in 1..Len(CyclesBuilt[c]) :
                                              CyclesBuilt[c][i] = x})
                 IN  IF k < 5 THEN visits = k ELSE visits >= 5})
      /\ SumSeq([k \in 1..6 |-> RandomExcursion_frequency(CyclesBuilt, x, k - 1)])
           = Len(CyclesBuilt)

\* C22: random excursion: every cycle counted toward J begins and ends at a
\* zero of S' with no zero in between, and J is the number of zeros of S'
\* after its initial element, the J of the random excursion variant test.
C22_ExcursionCyclesAreZeroToZero ==
  ExcursionExecuted =>
    /\ \A c \in 1..Len(CyclesBuilt) :
         LET cycle == CyclesBuilt[c]
         IN  /\ Len(cycle) >= 2
             /\ cycle[1] = 0 /\ cycle[Len(cycle)] = 0
             /\ \A i \in 2..(Len(cycle) - 1) : cycle[i] # 0
    /\ Len(CyclesBuilt) = CyclesOf(call.bits)


\* gammaincc(a, chi / 2) may be 0.0 itself: chi is infinite, or so large
\* that the value underflows (chi in units of 1/10000).
QMayBeZero(divisor, chi) == divisor = 0 \/ chi >= 14000000

\* The score list a template test has to return: 0.0 when chi-square is 0,
\* otherwise Q(a2 / 2, chi / 2), which may itself be 0.0.
CarriesPValue(score_list, a2, chi_is_zero, divisor, chi) ==
  IF chi_is_zero
    THEN score_list = <<Zero>>
    ELSE \/ score_list = <<Gammaincc(a2, chi)>>
         \/ QMayBeZero(divisor, chi) /\ score_list = <<Zero>>

\* C23: in the non-overlapping and the overlapping template test, whenever
\* chi-square is not 0 the score of the Result returned is
\* Q(., chi-square / 2), whether the test passes or fails, and the score is
\* 0 only when chi-square is 0 or Q itself is 0.  The template the
\* non-overlapping test drew is not part of its Result: the statement is
\* made for every template that gives the Result returned.
C23_TemplateResultsCarryPValue ==
  /\ (ExecuteReturned(call) /\ tests[1].class = "OverlappingTemplateMatchingTest") =>
       LET statistic == OverlappingTemplateMatching_statistic(tests[1], call.bits)
       IN  CarriesPValue(call.out.value._score_list, 5,
                         statistic.chi_square = 0, 1, statistic.chi_square)
  /\ (ExecuteReturned(call) /\ tests[1].class = "NonOverlappingTemplateMatchingTest") =>
       \A b_template \in NonOverlappingTemplateMatching_choices :
         LET e == NonOverlappingTemplateMatching_execute(tests[1], call.bits, b_template)
             statistic == NonOverlappingTemplateMatching_statistic(tests[1],
                            tests[1]._substring_bits_length, call.bits, b_template)
         IN  (e.out = call.out) =>
               CarriesPValue(call.out.value._score_list, tests[1]._blocks_number,
                             statistic.squares = 0, statistic.divisor,
                             statistic.chi_square)

OverlappingExecuted ==
  ExecuteReturned(call) /\ tests[1].class = "OverlappingTemplateMatchingTest"

\* C24: the six reference probabilities the overlapping template test uses
\* in chi-square satisfy pi_5 = 1 - (pi_0 + ... + pi_4), so the six sum to 1
\* (units of 1/1000000, each entry rounded: within 3 units).
C24_OverlappingProbabilitiesSumToOne ==
  OverlappingExecuted =>
    LET probabilities == OverlappingTemplateMatching_probabilities(tests[1])
        first_five == SumSeq(SubSeq(probabilities, 1, 5))
    IN  /\ Abs(probabilities[6] - (1000000 - first_five)) <= 3
        /\ Abs(SumSeq(probabilities) - 1000000) <= 3

LinearComplexityExecuted ==
  ExecuteReturned(call) /\ tests[1].class = "LinearComplexityTest"

\* The complexities _berlekamp_massey gives for the whole blocks of bits.
BlocksLinearComplexity(self, sequence) ==
  Array([i \in 1..FloorDiv(Len(sequence), self._pattern_length) |->
           LinearComplexity_berlekamp_massey(
             Slice(sequence, (i - 1) * self._pattern_length, i * self._pattern_length))])

\* The bin of T by the NIST cut-points: 0 for T <= -2.5, j for
\* j - 3.5 < T <= j - 2.5 (j = 1..5), 6 for T > 2.5.
NistBin(ticket) ==
  IF ticket <= -2500000 THEN 0
  ELSE IF ticket > 2500000 THEN 6
  ELSE CHOOSE j \in 1..5 :
         (j * 1000000 - 3500000) < ticket /\ ticket <= (j * 1000000 - 2500000)

\* C25: each T_i is counted in the bin the NIST cut-points give; a block
\* whose T lies in (-0.5, 0.5] is counted in bin 3.
C25_LinearComplexityBinsByCutPoints ==
  LinearComplexityExecuted =>
    LET complexities == BlocksLinearComplexity(tests[1], call.bits)
    IN  \A i \in 1..Len(complexities) :
          LET ticket == LinearComplexity_ticket(tests[1], complexities[i])
          IN  /\ LinearComplexity_bin(tests[1], complexities[i]) = NistBin(ticket)
              /\ (-500000 < ticket /\ ticket <= 500000) =>
                   LinearComplexity_bin(tests[1], complexities[i]) = 3

NonOverlappingExecuted ==
  ExecuteReturned(call) /\ tests[1].class = "NonOverlappingTemplateMatchingTest"

\* The matches a left-to-right scan of block finds when it examines every
\* window start 0 .. Len(block) - m: past a match by m, otherwise by 1.
RECURSIVE ScanEveryWindow(_, _, _, _)
ScanEveryWindow(block, b_template, position, count) ==
  IF position + Len(b_template) <= Len(block)
    THEN IF SubSeq(block, position + 1, position + Len(b_template)) = b_template
           THEN ScanEveryWindow(block, b_template, position + Len(b_template), count + 1)
           ELSE ScanEveryWindow(block, b_template, position + 1, count)
    ELSE count

\* C26: whichever template is drawn, W_i is the number of matches a
\* left-to-right scan of block i finds that examines every window start
\* 0 .. M - m, so a match in the last m bits of the block is counted.
C26_NonOverlappingScansEveryWindow ==
  NonOverlappingExecuted =>
    \A b_template \in NonOverlappingTemplateMatching_choices :
      LET M == tests[1]._substring_bits_length
          statistic == NonOverlappingTemplateMatching_statistic(tests[1], M,
                         call.bits, b_template)
      IN  \A i \in 1..tests[1]._blocks_number :
            statistic.matches[i]
              = ScanEveryWindow(SubSeq(call.bits, (i - 1) * M + 1, i * M),
                                b_template, 0, 0)

\* C27: W of a block is the number of all occurrences of the all-ones
\* template of length m in the block, over every one of the M - m + 1
\* window starts (the occurrence that ends at the last bit included), and
\* W is then clamped into the bins 0, 1, 2, 3, 4, >= 5.
C27_OverlappingCountsEveryWindow ==
  OverlappingExecuted =>
    LET M == tests[1]._substring_bits_length
        m == tests[1]._template_bits_length
        statistic == OverlappingTemplateMatching_statistic(tests[1], call.bits)
        W(i) == Cardinality({position \in 0..(M - m) :
                  \A j \in 1..m : call.bits[(i - 1) * M + position + j] = 1})
    IN  /\ \A i \in 1..tests[1]._blocks_number : statistic.counts[i] = W(i)
        /\ \A d \in 0..5 :
             statistic.matches_distributions[d + 1]
               = Cardinality({i \in 1..tests[1]._blocks_number :
                                IF d < 5 THEN W(i) = d ELSE W(i) >= 5})

\* C28: whichever template is drawn, the statistic is the sum over the
\* blocks of (W_i - mu)^2 divided by the variance
\* sigma^2 = M (1 / 2^m - (2 m - 1) / 2^(2 m)), with mu = (M - m + 1) / 2^m:
\* the divisor is the variance, not its square.  With W_i as counted,
\*   chi-square = sum (2^m W_i - (M - m + 1))^2 / (M (2^m - 2 m + 1)),
\* here in units of 1/10000, rounded down.
C28_NonOverlappingDividesByVariance ==
  NonOverlappingExecuted =>
    \A b_template \in NonOverlappingTemplateMatching_choices :
      LET M == tests[1]._substring_bits_length
          m == Len(b_template)
          statistic == NonOverlappingTemplateMatching_statistic(tests[1], M,
                         call.bits, b_template)
          squares == SumSeq([i \in 1..tests[1]._blocks_number |->
                       (Pow(2, m) * statistic.matches[i] - (M - m + 1))
                         * (Pow(2, m) * statistic.matches[i] - (M - m + 1))])
          divisor == M * (Pow(2, m) - 2 * m + 1)
      IN  divisor # 0 => statistic.chi_square = MulDiv(squares, 10000, divisor)

\* C29, as the spec states it: the block length the test computes from N as
\* min(2, max(3, floor(log2 N) - 6)) is 3.
C29_BlocksLengthIsThree ==
  call.op = "blocks_length" => call.out.value = 3

\* C29: the block length the test computes from N as
\* min(2, max(3, floor(log2 N) - 6)) is 2 for every N, so the pattern
\* lengths processed, range(m, m + 2), are 2 and 3.
C29_BlocksLengthIsTwo ==
  call.op = "blocks_length" =>
    /\ call.out.value = 2
    /\ call.out.value..(call.out.value + 1) = {2, 3}

\* C29 happens: the block length was computed for 1024 bits, where
\* floor(log2 N) - 6 = 4 is above both bounds.
C29_Witness ==
  /\ call.op = "blocks_length"
  /\ Len(call.bits) = 1024
  /\ FloorLog2(Len(call.bits)) - 6 = 4
  /\ call.out.value = 2

LongestRunExecuted ==
  ExecuteReturned(call) /\ tests[1].class = "LongestRunOnesInABlockTest"

\* C30: for the block size M and the K the test chose, the chi-square is
\* computed against M's own reference-probability row, which has exactly
\* K + 1 entries, one per bin filled, summing to 1 (units of 1/10000: within
\* one unit per entry); the terms of chi-square are those of the whole row.
C30_LongestRunRowHasKPlusOneEntries ==
  LongestRunExecuted =>
    LET M == tests[1]._block_size
        K == tests[1]._k
        row == LongestRunOnesInABlock_probabilities_row(M)
    IN  /\ <<M, K>> \in {<<8, 3>>, <<128, 5>>, <<10000, 6>>}
        /\ Len(row) = K + 1
        /\ Abs(SumSeq(row) - 10000) <= Len(row)
        /\ Abs(SumSeq([i \in 1..(K + 1) |->
                         LongestRunOnesInABlock_probabilities(M, i - 1)]) - 10000)
             <= K + 1

\* ------------------------------------------------- functions.py: the driver

\* python's None
None == <<>>

\* A dict is kept as the list of its items <<key, value>> in insertion
\* order; a Test value is the id of the object.
Keys(battery) == {battery[i][1] : i \in 1..Len(battery)}

\* battery[test_name], for a key of the battery
Get(battery, test_name) ==
  battery[CHOOSE i \in 1..Len(battery) : battery[i][1] = test_name][2]

\* The default battery: its tests are the objects 1..15.
SP800_22R1A_BATTERY ==
  << <<"monobit", 1>>, <<"frequency_within_block", 2>>, <<"runs", 3>>,
     <<"longest_run_ones_in_a_block", 4>>, <<"binary_matrix_rank", 5>>,
     <<"dft", 6>>, <<"non_overlapping_template_matching", 7>>,
     <<"overlapping_template_matching", 8>>, <<"maurers_universal", 9>>,
     <<"linear_complexity", 10>>, <<"serial", 11>>,
     <<"approximate_entropy", 12>>, <<"cumulative sums", 13>>,
     <<"random_excursion", 14>>, <<"random_excursion_variant", 15>> >>

\* A battery of the caller's own, of two tests the caller constructed (the
\* objects 16 and 17) under names of the caller's choice: a battery is any
\* dict from names to tests.
CallerTests ==
  <<MonobitTest, FrequencyWithinBlockTest>>

CALLER_BATTERY ==
  << <<"frequency_within_block", 16>>, <<"monobit", 17>> >>

Batteries == {SP800_22R1A_BATTERY, CALLER_BATTERY}

\* The names tests are run by: a key of both batteries and a key of the
\* default battery only.
TestNames == {"monobit", "runs"}

\* The sequences the driver is called with.
DriverInputs == {Ones(10), <<0, 0, 1, 0, 0, 1, 1, 0, 1, 1>>}

\* for name, instance in _cached_tests: if name == test_name: test = instance
\* (0 stands for the None test starts as)
Cached(cache, test_name) ==
  LET hits == {i \in 1..Len(cache) : cache[i][1] = test_name}
  IN  IF hits = {} THEN 0
      ELSE cache[CHOOSE i \in hits : \A j \in hits : j <= i][2]

\* What a driver function has done so far: the objects, the cache and the
\* caller's array as they are now, the names looked up, the tests executed,
\* and the outcome of the last step.
Entry(tests_, cache, bits_) ==
  [tests |-> tests_, cache |-> cache, bits |-> bits_, visited |-> <<>>,
   executed |-> <<>>, out |-> Return(None)]

\* run_by_name_battery(test_name, bits, battery, check_eligibility), entered
\* in d: the ways it can end.
run_by_name_battery(d, test_name, battery, check_eligibility) ==
  LET cached == Cached(d.cache, test_name)
      looked == [d EXCEPT !.visited = Append(@, test_name)]
  IN  IF cached = 0 /\ test_name \notin Keys(battery)
        THEN {[looked EXCEPT !.out = Raise("KeyError")]}
        ELSE LET test == IF cached = 0 THEN Get(battery, test_name) ELSE cached
                 found == IF cached = 0
                            THEN [looked EXCEPT !.cache = Append(@, <<test_name, test>>)]
                            ELSE looked
             IN  IF check_eligibility /\ ~IsEligible(d.tests[test], d.bits)
                   THEN {[found EXCEPT !.out = Return(None)]}
                   ELSE {[found EXCEPT !.tests[test] = e.self, !.bits = e.bits,
                                       !.executed = Append(@, test), !.out = e.out] :
                           e \in Run(d.tests[test], d.bits)}

\* The loop of run_all_battery from the i-th key on.
RECURSIVE run_all_battery_from(_, _, _, _, _)
run_all_battery_from(d, battery, check_eligibility, i, results) ==
  IF i > Len(battery) THEN {[d EXCEPT !.out = Return(results)]}
  ELSE UNION {IF r.out.kind = "raise" THEN {r}
              ELSE run_all_battery_from(r, battery, check_eligibility, i + 1,
                                        Append(results, r.out.value)) :
                r \in run_by_name_battery(d, battery[i][1], battery, check_eligibility)}

run_all_battery(d, battery, check_eligibility) ==
  run_all_battery_from(d, battery, check_eligibility, 1, <<>>)

\* A plausible slip: the loop of run_in_order_battery without its break.
run_in_order_battery_break_never(result) == FALSE

\* if not result.passed: break
run_in_order_battery_break(result) == ~result._success

\* The loop of run_in_order_battery from the i-th key on.  The value of
\* run_by_name_battery is unpacked into (result, elapsed_time): None does not
\* unpack, python raises TypeError.
RECURSIVE run_in_order_battery_from(_, _, _, _, _)
run_in_order_battery_from(d, battery, check_eligibility, i, results) ==
  IF i > Len(battery) THEN {[d EXCEPT !.out = Return(results)]}
  ELSE UNION {
         IF r.out.kind = "raise" THEN {r}
         ELSE IF r.out.value = None THEN {[r EXCEPT !.out = Raise("TypeError")]}
         ELSE IF run_in_order_battery_break(r.out.value[1])
           THEN {[r EXCEPT !.out = Return(Append(results, r.out.value))]}
           ELSE run_in_order_battery_from(r, battery, check_eligibility, i + 1,
                                          Append(results, r.out.value)) :
         r \in run_by_name_battery(d, battery[i][1], battery, check_eligibility)}

run_in_order_battery(d, battery, check_eligibility) ==
  run_in_order_battery_from(d, battery, check_eligibility, 1, <<>>)

\* check_eligibility_by_name_battery(test_name, bits, battery), entered in d
check_eligibility_by_name_battery(d, test_name, battery) ==
  LET cached == Cached(d.cache, test_name)
      looked == [d EXCEPT !.visited = Append(@, test_name)]
  IN  IF cached = 0 /\ test_name \notin Keys(battery)
        THEN [looked EXCEPT !.out = Raise("KeyError")]
        ELSE LET test == IF cached = 0 THEN Get(battery, test_name) ELSE cached
                 found == IF cached = 0
                            THEN [looked EXCEPT !.cache = Append(@, <<test_name, test>>)]
                            ELSE looked
             IN  [found EXCEPT !.out = Return(IsEligible(d.tests[test], d.bits))]

\* The loop of check_eligibility_all_battery from the i-th key on; results
\* is the dict built so far.
RECURSIVE check_eligibility_all_battery_from(_, _, _, _)
check_eligibility_all_battery_from(d, battery, i, results) ==
  IF i > Len(battery) THEN [d EXCEPT !.out = Return(results)]
  ELSE LET name == battery[i][1]
           r == check_eligibility_by_name_battery(d, name, battery)
       IN  IF r.out.kind = "raise" THEN r
           ELSE check_eligibility_all_battery_from(r, battery, i + 1,
                  IF r.out.value THEN Append(results, <<name, Get(battery, name)>>)
                  ELSE results)

check_eligibility_all_battery(d, battery) ==
  check_eligibility_all_battery_from(d, battery, 1, <<>>)

\* ------------------------------------- pack_sequence and unpack_sequence

\* The set of values of numpy.int8
Int8 == -128..127

\* .astype(numpy.uint8), numpy.array(..., dtype=numpy.uint8) of an array:
\* each value modulo 2^8.
astype_uint8(a) == Array([i \in 1..Len(a) |-> a[i] % 256])

\* .astype(numpy.int8): each value modulo 2^8, read in two's complement.
astype_int8(a) ==
  Array([i \in 1..Len(a) |-> IF a[i] % 256 >= 128 THEN (a[i] % 256) - 256 ELSE a[i] % 256])

\* A plausible slip: the bits of a byte taken least significant first.
unpackbits_little(a) ==
  Array([i \in 1..(8 * Len(a)) |->
           (a[((i - 1) \div 8) + 1] \div Pow(2, (i - 1) % 8)) % 2])

\* numpy.unpackbits of a uint8 array: the 8 bits of each byte, the most
\* significant first.
unpackbits(a) ==
  Array([i \in 1..(8 * Len(a)) |->
           (a[((i - 1) \div 8) + 1] \div Pow(2, 7 - ((i - 1) % 8))) % 2])

\* numpy.packbits: one byte per 8 elements, the first element the most
\* significant bit; an element that is not zero counts as 1 and the last
\* byte is padded with zeros.
packbits(a) ==
  Array([k \in 1..((Len(a) + 7) \div 8) |->
           SumSeq([j \in 1..8 |->
                     IF 8 * (k - 1) + j <= Len(a) /\ a[8 * (k - 1) + j] # 0
                       THEN Pow(2, 8 - j) ELSE 0])])

pack_sequence(sequence) == astype_int8(unpackbits(astype_uint8(sequence)))

unpack_sequence(sequence_binary_encoded) == astype_int8(packbits(sequence_binary_encoded))

\* The arrays handed to the two functions: every 0/1 array of 1..10
\* elements, every 0/1 array of 8 elements followed by one of three others,
\* every single value of int8, and the pairs of some values of int8 and of
\* two values beyond int8.
PackInputs ==
  BitSeqs(1, 10)
    \cup {x \o y : x \in BitSeqs(8, 8),
                   y \in {Zeros(8), Ones(8), <<0, 1, 0, 1, 1, 0, 1, 0>>}}
    \cup [1..1 -> Int8]
    \cup [1..2 -> {-128, -91, -1, 0, 1, 90, 127, 165, 255}]

PackInit ==
  /\ tests = <<>>
  /\ _cached_tests = <<>>
  /\ bits \in PackInputs
  /\ call = NoCall
  /\ mem = NoCall

\* pack_sequence(bits)
Call_pack_sequence ==
  /\ call' = [NoCall EXCEPT !.op = "pack_sequence", !.bits = bits,
                            !.out = Return(pack_sequence(bits))]
  /\ UNCHANGED <<tests, _cached_tests, bits, mem>>

\* unpack_sequence(bits)
Call_unpack_sequence ==
  /\ call' = [NoCall EXCEPT !.op = "unpack_sequence", !.bits = bits,
                            !.out = Return(unpack_sequence(bits))]
  /\ UNCHANGED <<tests, _cached_tests, bits, mem>>

PackNext == Call_pack_sequence \/ Call_unpack_sequence

PackSpec == PackInit /\ [][PackNext]_vars

\* ------------------------------------------------------ the driver, called

Init ==
  /\ tests = SP800_22R1A_TESTS \o CallerTests
  /\ _cached_tests = <<>>
  /\ bits \in DriverInputs
  /\ call = NoCall
  /\ mem = NoCall

\* The caller builds another array.
NewBits ==
  /\ \E b \in DriverInputs : bits' = b
  /\ call' = NoCall
  /\ UNCHANGED <<tests, _cached_tests, mem>>

\* A driver function called with the arguments given ended as r says.
Called(op, test_name, battery, check_eligibility, r) ==
  /\ tests' = r.tests
  /\ _cached_tests' = r.cache
  /\ bits' = r.bits
  /\ call' = [op |-> op, name |-> test_name, battery |-> battery,
              check_eligibility |-> check_eligibility, bits |-> bits,
              visited |-> r.visited, executed |-> r.executed, out |-> r.out]
  /\ UNCHANGED mem

Call_run_all_battery ==
  \E battery \in Batteries, check_eligibility \in BOOLEAN :
    \E r \in run_all_battery(Entry(tests, _cached_tests, bits), battery,
                             check_eligibility) :
      Called("run_all_battery", "", battery, check_eligibility, r)

Call_run_in_order_battery ==
  \E battery \in Batteries, check_eligibility \in BOOLEAN :
    \E r \in run_in_order_battery(Entry(tests, _cached_tests, bits), battery,
                                  check_eligibility) :
      Called("run_in_order_battery", "", battery, check_eligibility, r)

Call_run_by_name_battery ==
  \E test_name \in TestNames, battery \in Batteries, check_eligibility \in BOOLEAN :
    \E r \in run_by_name_battery(Entry(tests, _cached_tests, bits), test_name,
                                 battery, check_eligibility) :
      Called("run_by_name_battery", test_name, battery, check_eligibility, r)

Call_check_eligibility_all_battery ==
  \E battery \in Batteries :
    \E r \in {check_eligibility_all_battery(Entry(tests, _cached_tests, bits),
                                            battery)} :
      Called("check_eligibility_all_battery", "", battery, TRUE, r)

Call_check_eligibility_by_name_battery ==
  \E test_name \in TestNames, battery \in Batteries :
    \E r \in {check_eligibility_by_name_battery(Entry(tests, _cached_tests, bits),
                                                test_name, battery)} :
      Called("check_eligibility_by_name_battery", test_name, battery, TRUE, r)

Next ==
  \/ NewBits
  \/ Call_run_all_battery
  \/ Call_run_in_order_battery
  \/ Call_run_by_name_battery
  \/ Call_check_eligibility_all_battery
  \/ Call_check_eligibility_by_name_battery

Spec == Init /\ [][Next]_vars

\* ------------------------------------------- claims about the driver

\* The test the driver resolved a name it looked up to: _cached_tests holds
\* one entry for every name looked up so far (an entry is appended only
\* when the name has none).
Resolved(test_name) == tests[Cached(_cached_tests, test_name)]

\* The last call was op and returned.
DriverReturned(op) == call.op = op /\ call.out.kind = "return"

\* C1: run_all_battery with check_eligibility true returns a list with
\* exactly one entry per key of the battery, in the battery's order, and
\* the i-th entry is None if and only if the battery's i-th test is not
\* eligible for the sequence.
C1_RunAllOneEntryPerKey ==
  (call.op = "run_all_battery" /\ call.check_eligibility) =>
    /\ call.out.kind = "return"
    /\ Len(call.out.value) = Len(call.battery)
    /\ call.visited = [i \in 1..Len(call.battery) |-> call.battery[i][1]]
    /\ \A i \in 1..Len(call.battery) :
         (call.out.value[i] = None) <=>
           ~IsEligible(tests[call.battery[i][2]], call.bits)

\* C5: run_by_name_battery executes the test the battery passed in this
\* call maps the name to, whatever calls the driver served before.
C5_RunByNameExecutesBatteryTest ==
  (call.op = "run_by_name_battery" /\ call.name \in Keys(call.battery)) =>
    \A i \in 1..Len(call.executed) :
      call.executed[i] = Get(call.battery, call.name)

\* C6: run_by_name_battery and check_eligibility_by_name_battery called
\* with a name that is not a key of the battery passed end in an error,
\* and run no test.
C6_UnknownNameRaises ==
  (/\ call.op \in {"run_by_name_battery", "check_eligibility_by_name_battery"}
   /\ call.name \notin Keys(call.battery)) =>
    call.out.kind = "raise" /\ call.executed = <<>>

\* C7: the list run_in_order_battery returns is a prefix of the battery: the
\* names looked up are the battery's first n keys in order, one test was
\* executed for each (the test the driver resolved the key to) and none
\* after, every entry before the last passed, and the list stops short of
\* the battery only on an entry that did not pass.
C7_RunInOrderStopsAtFirstFailure ==
  DriverReturned("run_in_order_battery") =>
    LET results == call.out.value
        n == Len(results)
    IN  /\ n <= Len(call.battery)
        /\ call.visited = [i \in 1..n |-> call.battery[i][1]]
        /\ call.executed = [i \in 1..n |-> Cached(_cached_tests, call.battery[i][1])]
        /\ \A i \in 1..(n - 1) : results[i][1]._success
        /\ n < Len(call.battery) => ~results[n][1]._success

\* C7 happens: run_in_order_battery returned a list of two or more entries
\* that stops short of the battery on an entry that did not pass.
C7_Witness ==
  /\ DriverReturned("run_in_order_battery")
  /\ Len(call.out.value) > 1
  /\ Len(call.out.value) < Len(call.battery)
  /\ ~call.out.value[Len(call.out.value)][1]._success

\* C8: when run_in_order_battery with check_eligibility true meets a test
\* that is not eligible for the sequence, the call still returns, and its
\* list holds None at that test's position.
C8_RunInOrderIneligibleIsNone ==
  (call.op = "run_in_order_battery" /\ call.check_eligibility) =>
    \A i \in 1..Len(call.visited) :
      ~IsEligible(Resolved(call.visited[i]), call.bits) =>
        call.out.kind = "return" /\ call.out.value[i] = None

\* ------------------------------- claims about pack_sequence, unpack_sequence

IsBits(a) == \A i \in 1..Len(a) : a[i] \in {0, 1}

\* C14: pack_sequence and unpack_sequence are mutually inverse: for every
\* 0/1 sequence x whose length is a multiple of 8,
\* pack_sequence(unpack_sequence(x)) = x, and for every sequence y of signed
\* 8-bit values, unpack_sequence(pack_sequence(y)) = y; pack_sequence reads
\* each byte as unsigned and writes its 8 bits, the most significant first.
C14_PackUnpackInverse ==
  /\ (call.op = "unpack_sequence" /\ IsBits(call.bits) /\ Len(call.bits) % 8 = 0) =>
       /\ Len(call.out.value) * 8 = Len(call.bits)
       /\ pack_sequence(call.out.value) = call.bits
  /\ (call.op = "pack_sequence" /\ \A i \in 1..Len(call.bits) : call.bits[i] \in Int8) =>
       /\ Len(call.out.value) = 8 * Len(call.bits)
       /\ IsBits(call.out.value)
       /\ \A i \in 1..Len(call.bits) :
            SumSeq([j \in 1..8 |-> call.out.value[8 * (i - 1) + j] * Pow(2, 8 - j)])
              = IF call.bits[i] < 0 THEN call.bits[i] + 256 ELSE call.bits[i]
       /\ unpack_sequence(call.out.value) = call.bits

\* pack_sequence has turned the two bytes 0x5A and 0xA5 (-91 as int8) into 16
\* bits, the most significant first.
C14_Witness ==
  /\ call.op = "pack_sequence" /\ call.bits = <<90, -91>>
  /\ call.out = Return(<<0, 1, 0, 1, 1, 0, 1, 0, 1, 0, 1, 0, 0, 1, 0, 1>>)

====
